---- MODULE Spec2Model ----
(***************************************************************************)
(* FroLang: the tree-walking evaluator (package evaluator), the lexical    *)
(* environment (package object) and the two front ends (repl.Start and     *)
(* main) of mochatek/frolang.                                              *)
(*                                                                         *)
(* Eval is a recursive Go function with side effects on *Environment       *)
(* objects.  It is modelled function by function as a recursive operator   *)
(* that threads the machine record m through every call:                   *)
(*   m.envs   the heap of Environment objects (index = pointer, 0 = nil)   *)
(*   m.log    history of what the evaluator did (ghost, never read by it)  *)
(*   m.cstack the executing applyFunction calls and loops (ghost)          *)
(*   m.nseq   number of statement sequences started so far (ghost)         *)
(*   m.nref   number of arrays and functions allocated so far              *)
(*   m.steps  loop iterations and calls made, capped by MaxSteps           *)
(* Every operator returns R(val, m): the Go return value and the machine   *)
(* after the call.  Go's nil Object is the value NIL; a Go runtime panic   *)
(* and running past MaxSteps are the host-level outcomes PANIC and DIVERGE *)
(* that unwind every caller.                                               *)
(***************************************************************************)
EXTENDS Integers, Sequences, FiniteSets, TLC

VARIABLES
  mode,     \* "script": main runs a file; "repl": repl.Start reads lines
  source,   \* the parsed input: a sequence of lines, each a Program
  line,     \* number of lines evaluated so far
  pc,       \* "run" while lines remain, "done" after the last one
  mach,     \* the machine record: heap of environments and history
  genv,     \* the front end's env: the global Environment
  output,   \* what the last Eval returned to the front end
  stream,   \* the tokens the lexer hands to the parser
  prs,      \* the Parser
  tree,     \* the Program that ParseProgram returned
  printed,  \* the String of the Program
  again     \* what parsing the String again gave

vars ==
  <<mode, source, line, pc, mach, genv, output, stream, prs, tree, printed,
    again>>

(***************************************************************************)
(* Bounds                                                                  *)
(***************************************************************************)
\* loop iterations plus function calls one evaluation may make
MaxSteps == 8
\* largest integer literal the enumerated programs contain
MaxInt == 2
\* longest statement sequence the enumerated programs contain
MaxLen == 3
\* deepest nesting of blocks, branches and loops around a return
MaxDepth == 2

(***************************************************************************)
(* ast: nodes.  A nil node is what the parser returns for a construct it   *)
(* could not parse; Token and Location are left out of every node.         *)
(***************************************************************************)
NoNode == [type |-> "nil"]
Program(stmts) == [type |-> "Program", Statements |-> stmts]
Identifier(name) == [type |-> "Identifier", Value |-> name]
LetStatement(name, value) ==
  [type |-> "LetStatement", Name |-> Identifier(name), Value |-> value]
ReturnStatement(value) == [type |-> "ReturnStatement", ReturnValue |-> value]
ExpressionStatement(e) == [type |-> "ExpressionStatement", Expression |-> e]
BlockStatement(stmts) == [type |-> "BlockStatement", Statements |-> stmts]
PrefixExpression(op, right) ==
  [type |-> "PrefixExpression", Operator |-> op, Right |-> right]
InfixExpression(left, op, right) ==
  [type |-> "InfixExpression", Left |-> left, Operator |-> op, Right |-> right]
AssignExpression(name, value) ==
  [type |-> "AssignExpression", Variable |-> Identifier(name), Value |-> value]
IfExpression(cond, cons, alt) ==
  [type |-> "IfExpression", Condition |-> cond, Consequence |-> cons,
   Alternate |-> alt]
ForExpression(elem, iter, body) ==
  [type |-> "ForExpression", Element |-> Identifier(elem), Iterator |-> iter,
   Body |-> body]
WhileExpression(cond, body) ==
  [type |-> "WhileExpression", Condition |-> cond, Body |-> body]
BreakStatement == [type |-> "BreakStatement"]
ContinueStatement == [type |-> "ContinueStatement"]
TryStatement(try, err, catch, finally) ==
  [type |-> "TryStatement", Try |-> try, Error |-> Identifier(err),
   Catch |-> catch, Finally |-> finally]
IndexExpression(array, index) ==
  [type |-> "IndexExpression", Array |-> array, Index |-> index]
CallExpression(function, arguments) ==
  [type |-> "CallExpression", Function |-> function, Arguments |-> arguments]
IntegerLiteral(n) == [type |-> "IntegerLiteral", Value |-> n]
FloatLiteral(f) == [type |-> "FloatLiteral", Value |-> f]
BooleanLiteral(b) == [type |-> "BooleanLiteral", Value |-> b]
StringLiteral(s) == [type |-> "StringLiteral", Value |-> s]
ArrayLiteral(elems) == [type |-> "ArrayLiteral", Elements |-> elems]
\* Pairs is a Go map from key node to value node: here the sequence of its
\* <<key, value>> entries in source order
HashLiteral(pairs) == [type |-> "HashLiteral", Pairs |-> pairs]
FunctionLiteral(params, body) ==
  [type |-> "FunctionLiteral", Parameters |-> params, Body |-> body]

(***************************************************************************)
(* object: runtime values                                                  *)
(***************************************************************************)
NIL == [kind |-> "nil"]
NULL == [kind |-> "NULL"]
PANIC == [kind |-> "PANIC"]
DIVERGE == [kind |-> "DIVERGE"]

Integer(n) == [kind |-> "INTEGER", iv |-> n]
\* a float64 is the fraction n/d in lowest terms with d > 0, or 1/0 (+Inf),
\* -1/0 (-Inf), 0/0 (NaN); exact for the literals and results of the inputs
Float(f) == [kind |-> "FLOAT", fv |-> f]
String(s) == [kind |-> "STRING", sv |-> s]
nativeToBooleanObject(b) == [kind |-> "BOOLEAN", bv |-> b]
TrueObj == nativeToBooleanObject(TRUE)
FalseObj == nativeToBooleanObject(FALSE)
newError(msg) == [kind |-> "ERROR", msg |-> msg]
ReturnValue(v) == [kind |-> "RETURN_VALUE", rv |-> v]
Builtin(name) == [kind |-> "BUILTIN", Fn |-> name]
\* ref is the address of a heap object: == on arrays and functions compares it
Function(params, body, env, ref) ==
  [kind |-> "FUNCTION", Parameters |-> params, Body |-> body, Env |-> env,
   ref |-> ref]
Array(elems, ref) == [kind |-> "ARRAY", Elements |-> elems, ref |-> ref]
\* Pairs maps a HashKey to its HashPair; keys lists the HashKeys in the order
\* in which Go's range over the map yields them
HashPair(key, value) == [Key |-> key, Value |-> value]
Hash(pairs, keys, ref) ==
  [kind |-> "HASH", Pairs |-> pairs, keys |-> keys, ref |-> ref]
NoPairs == [k \in {} |-> NIL]

\* the decimal digits of uint64(n), which wraps a negative n to 2^64 + n
uint64(n) ==
  IF n >= 0 THEN ToString(n) ELSE "184467440737095" \o ToString(51616 + n)

\* the digest of hash/fnv's New64a over the bytes of s
Sum64(s) == "fnv64a(" \o s \o ")"

Hashable(obj) == obj.kind \in {"INTEGER", "FLOAT", "STRING", "BOOLEAN"}

IntegerHashKey(integer) ==
  [Type |-> integer.kind, Value |-> uint64(integer.iv)]
BooleanHashKey(boolean) ==
  [Type |-> boolean.kind, Value |-> IF boolean.bv THEN "1" ELSE "0"]
StringHashKey(string) == [Type |-> string.kind, Value |-> Sum64(string.sv)]
\* the {kind, 64-bit hash} pair of a float: a hash of its value
FloatHashKey(float) ==
  [Type |-> float.kind,
   Value |-> Sum64(ToString(float.fv.n) \o "/" \o ToString(float.fv.d))]

HashKey(obj) ==
  CASE obj.kind = "INTEGER" -> IntegerHashKey(obj)
    [] obj.kind = "BOOLEAN" -> BooleanHashKey(obj)
    [] obj.kind = "STRING" -> StringHashKey(obj)
    [] obj.kind = "FLOAT" -> FloatHashKey(obj)

R(v, m) == [val |-> v, m |-> m]

isError(obj) == obj.kind = "ERROR"
Aborted(obj) == obj.kind \in {"PANIC", "DIVERGE"}

RECURSIVE Inspect(_)
RECURSIVE JoinInspect(_, _)
RECURSIVE JoinPairs(_)
JoinInspect(elems, sep) ==
  IF elems = <<>> THEN ""
  ELSE IF Len(elems) = 1 THEN Inspect(elems[1])
  ELSE Inspect(elems[1]) \o sep \o JoinInspect(Tail(elems), sep)

JoinPairs(pairs) ==
  IF pairs = <<>> THEN ""
  ELSE LET pair == Inspect(pairs[1].Key) \o ": " \o Inspect(pairs[1].Value)
       IN IF Len(pairs) = 1 THEN pair
          ELSE pair \o ", " \o JoinPairs(Tail(pairs))

IntString(n) == IF n < 0 THEN "-" \o ToString(0 - n) ELSE ToString(n)

Inspect(obj) ==
  CASE obj.kind = "INTEGER" -> IntString(obj.iv)
    [] obj.kind = "STRING" -> obj.sv
    [] obj.kind = "BOOLEAN" -> IF obj.bv THEN "true" ELSE "false"
    [] obj.kind = "NULL" -> "null"
    [] obj.kind = "ERROR" -> "EVAL ERROR: " \o obj.msg
    [] obj.kind = "RETURN_VALUE" -> Inspect(obj.rv)
    [] obj.kind = "ARRAY" -> "[" \o JoinInspect(obj.Elements, ", ") \o "]"
    [] obj.kind = "BUILTIN" -> "Builtin function"
    [] obj.kind = "HASH" ->
         "{" \o JoinPairs([i \in DOMAIN obj.keys |-> obj.Pairs[obj.keys[i]]])
           \o "}"
    [] OTHER -> "fn"

(***************************************************************************)
(* object: Environment                                                     *)
(***************************************************************************)
NoStore == [n \in {} |-> NIL]

NewEnvironment(envs) == Append(envs, [store |-> NoStore, outer |-> 0])

NewEnclosedEnvironment(envs, outer) ==
  Append(envs, [store |-> NoStore, outer |-> outer])

Set(envs, e, name, obj) ==
  [envs EXCEPT ![e].store =
     [n \in DOMAIN envs[e].store \cup {name} |->
        IF n = name THEN obj ELSE envs[e].store[n]]]

RECURSIVE Get(_, _, _)
Get(envs, e, name) ==
  IF name \in DOMAIN envs[e].store
    THEN [obj |-> envs[e].store[name], ok |-> TRUE]
    ELSE IF envs[e].outer # 0
      THEN Get(envs, envs[e].outer, name)
      ELSE [obj |-> NIL, ok |-> FALSE]

\* Update without the return in its loop: every environment of the chain
\* that defines the name is written
RECURSIVE UpdateEvery(_, _, _, _, _)
UpdateEvery(envs, environment, env, name, obj) ==
  IF env = 0 THEN envs
  ELSE IF name \in DOMAIN envs[env].store
    THEN UpdateEvery(Set(envs, env, name, obj), environment, envs[env].outer,
                     name, obj)
  ELSE UpdateEvery(envs, environment, envs[env].outer, name, obj)

RECURSIVE UpdateFrom(_, _, _, _, _)
UpdateFrom(envs, environment, env, name, obj) ==
  IF env = 0 THEN Set(envs, environment, name, obj)
  ELSE IF name \in DOMAIN envs[env].store THEN Set(envs, env, name, obj)
  ELSE UpdateFrom(envs, environment, envs[env].outer, name, obj)

\* Update writing into the environment it was called on, whichever
\* environment defines the name
UpdateHere(envs, environment, name, obj) == Set(envs, environment, name, obj)

Update(envs, environment, name, obj) ==
  UpdateFrom(envs, environment, environment, name, obj)

(***************************************************************************)
(* The machine record and its history                                      *)
(***************************************************************************)
\* heap: the backing arrays of the slices and the maps that Go allocated, by
\* the address of the object.Array or object.Hash they were made for;
\* slices: the slice header Elements of every object.Array
NoHeap == [ref \in {} |-> NIL]

NewMachine ==
  [envs |-> <<>>, log |-> <<>>, cstack |-> <<>>, nseq |-> 0, nref |-> 0,
   steps |-> 0, order |-> [i \in 1..MaxLen |-> i], heap |-> NoHeap,
   slices |-> NoHeap, calls |-> <<>>]

\* Go leaves the order of a range over a map open: the run draws it as
\* order, and a map of k entries is visited in the order of order's indices
\* up to k
Orders ==
  {o \in [1..MaxLen -> 1..MaxLen] : \A i, j \in 1..MaxLen : o[i] = o[j] => i = j}

Visit(order, k) ==
  LET Within(i) == i <= k
  IN SelectSeq(order, Within)

Log(m, e) == [m EXCEPT !.log = Append(@, e)]

\* &object.Array{Elements: elems} over a backing array that make or append
\* allocated for it
NewArray(elems, m) ==
  [val |-> Array(elems, m.nref + 1),
   m |-> [m EXCEPT !.nref = @ + 1,
                   !.heap = @ @@ ((m.nref + 1) :> elems),
                   !.slices = @ @@ ((m.nref + 1) :>
                                      [array |-> m.nref + 1, low |-> 0,
                                       high |-> Len(elems)])]]

\* &object.Array{Elements: Elements[start:end]} of the object.Array array:
\* a second header over the backing array of array
NewSlice(array, start, end, m) ==
  [val |-> Array(SubSeq(array.Elements, start + 1, end), m.nref + 1),
   m |-> [m EXCEPT !.nref = @ + 1,
                   !.slices = @ @@ ((m.nref + 1) :>
                                      [array |-> m.slices[array.ref].array,
                                       low |-> m.slices[array.ref].low + start,
                                       high |-> m.slices[array.ref].low + end])]]

\* &object.Hash{Pairs: pairs} over a map that make allocated for it
NewHash(pairs, keys, m) ==
  [val |-> Hash(pairs, keys, m.nref + 1),
   m |-> [m EXCEPT !.nref = @ + 1, !.heap = @ @@ ((m.nref + 1) :> pairs)]]

\* what the memory holds for an array or a hash now
Contents(obj, m) ==
  IF obj.kind = "ARRAY"
    THEN SubSeq(m.heap[m.slices[obj.ref].array], m.slices[obj.ref].low + 1,
                m.slices[obj.ref].high)
    ELSE m.heap[obj.ref]

\* cstack: the applyFunction calls and the loops that are executing, each
\* with its environment
Push(m, what, env) == [m EXCEPT !.cstack = Append(@, <<what, env>>)]
Pop(m) == [m EXCEPT !.cstack = SubSeq(@, 1, Len(@) - 1)]

\* the innermost executing call (its environment), 0 at top level
CurCall(m) ==
  LET calls == {i \in DOMAIN m.cstack : m.cstack[i][1] = "call"}
  IN IF calls = {} THEN 0
     ELSE m.cstack[CHOOSE i \in calls : \A j \in calls : j <= i][2]

\* the innermost executing loop of the innermost call, 0 outside every loop
CurLoop(m) ==
  IF m.cstack # <<>> /\ m.cstack[Len(m.cstack)][1] = "loop"
    THEN m.cstack[Len(m.cstack)][2]
    ELSE 0

\* statement idx of sequence sid is about to be evaluated in env
BeginEvent(m, sid, idx, node, env) ==
  [op |-> "begin", sid |-> sid, idx |-> idx, node |-> node, env |-> env,
   envs |-> m.envs, call |-> CurCall(m), loop |-> CurLoop(m)]
\* statement idx of sequence sid evaluated to res
StmtEvent(m, sid, idx, node, env, res) ==
  [op |-> "stmt", sid |-> sid, idx |-> idx, node |-> node, env |-> env,
   envs |-> m.envs, res |-> res, call |-> CurCall(m), loop |-> CurLoop(m)]
\* sequence sid (a program body or a block body of n statements) yielded res
SeqEvent(m, sid, isProgram, n, res) ==
  [op |-> "seq", sid |-> sid, prog |-> isProgram, n |-> n, res |-> res,
   call |-> CurCall(m), loop |-> CurLoop(m)]
\* env.Update(name, res) ran from environment env: the heap before and after
AssignEvent(m, env, name, before, after, res) ==
  [op |-> "assign", env |-> env, name |-> name, before |-> before,
   after |-> after, res |-> res, call |-> CurCall(m), loop |-> CurLoop(m)]
\* iteration k of the loop whose environment is localEnv is about to start
IterEvent(m, localEnv, k) ==
  [op |-> "iter", env |-> localEnv, k |-> k, envs |-> m.envs,
   call |-> CurCall(m), loop |-> CurLoop(m)]
\* evalForExpression made localEnv, enclosed by env, to bind name to array's
\* elements
ForEvent(m, localEnv, env, name, array) ==
  [op |-> "for", env |-> localEnv, outer |-> env, name |-> name,
   elems |-> array, call |-> CurCall(m), loop |-> CurLoop(m)]
\* the loop whose environment is localEnv returned res
LoopEvent(m, localEnv, res) ==
  [op |-> "loop", env |-> localEnv, res |-> res, call |-> CurCall(m),
   loop |-> CurLoop(m)]
\* the function literal evaluated in env became the Function object ref
FnEvent(m, ref, env) ==
  [op |-> "fn", ref |-> ref, env |-> env, call |-> CurCall(m),
   loop |-> CurLoop(m)]
\* applyFunction called function, a closure over fenv, in the new environment
CallEvent(m, function, env) ==
  [op |-> "call", ref |-> function.ref, fenv |-> function.Env, env |-> env,
   call |-> CurCall(m), loop |-> CurLoop(m)]
\* the call whose environment is env got raw from the body and returned res
RetEvent(m, env, raw, res) ==
  [op |-> "ret", env |-> env, raw |-> raw, res |-> res, call |-> CurCall(m),
   loop |-> CurLoop(m)]

(***************************************************************************)
(* evaluator: operations on values                                         *)
(***************************************************************************)
isTrue(obj) ==
  CASE obj.kind = "BOOLEAN" -> obj.bv
    [] obj.kind = "INTEGER" -> obj.iv # 0
    [] obj.kind = "FLOAT" -> obj.fv.n # 0 \/ obj.fv.d = 0
    [] obj.kind = "STRING" -> Len(obj.sv) > 0
    [] obj.kind = "ARRAY" -> Len(obj.Elements) > 0
    [] obj.kind = "HASH" -> DOMAIN obj.Pairs # {}
    [] OTHER -> FALSE

\* == on the contents of two objects where Go compares the pointers
SameContents(l, r) ==
  IF l.kind # r.kind THEN FALSE
  ELSE CASE l.kind = "ARRAY" -> l.Elements = r.Elements
         [] l.kind = "FUNCTION" -> l.Body = r.Body
         [] OTHER -> l = r

\* Go's == on two Object interface values: the same pointer.  Booleans,
\* NULL and the builtins are singletons; arrays and functions have a ref.
SameObject(l, r) ==
  IF l.kind # r.kind THEN FALSE
  ELSE CASE l.kind \in {"nil", "NULL"} -> TRUE
         [] l.kind = "BOOLEAN" -> l.bv = r.bv
         [] l.kind = "BUILTIN" -> l.Fn = r.Fn
         [] l.kind \in {"ARRAY", "FUNCTION", "HASH"} -> l.ref = r.ref
         [] OTHER -> FALSE

\* Go's integer division truncates toward zero
Quotient(a, b) ==
  IF (a >= 0) = (b >= 0)
    THEN (IF a >= 0 THEN a ELSE 0 - a) \div (IF b >= 0 THEN b ELSE 0 - b)
    ELSE 0 - ((IF a >= 0 THEN a ELSE 0 - a) \div (IF b >= 0 THEN b ELSE 0 - b))

UnknownOperator(l, operator, r) ==
  newError("Unknown operator: " \o l.kind \o " " \o operator \o " " \o r.kind)

evalIntOperation(leftOperand, operator, rightOperand) ==
  LET leftValue == leftOperand.iv
      rightValue == rightOperand.iv
  IN CASE operator = "+" -> Integer(leftValue + rightValue)
       [] operator = "-" -> Integer(leftValue - rightValue)
       [] operator = "*" -> Integer(leftValue * rightValue)
       [] operator = "/" ->
            \* Go panics on an integer division by zero
            IF rightValue = 0 THEN PANIC
            ELSE Integer(Quotient(leftValue, rightValue))
       [] operator = "==" -> nativeToBooleanObject(leftValue = rightValue)
       [] operator = "!=" -> nativeToBooleanObject(leftValue # rightValue)
       [] operator = "<" -> nativeToBooleanObject(leftValue < rightValue)
       [] operator = "<=" -> nativeToBooleanObject(leftValue <= rightValue)
       [] operator = ">" -> nativeToBooleanObject(leftValue > rightValue)
       [] operator = ">=" -> nativeToBooleanObject(leftValue >= rightValue)
       [] OTHER -> UnknownOperator(leftOperand, operator, rightOperand)

\* float64 arithmetic of Go (IEEE 754, without the sign of zero)
Sign(n) == IF n > 0 THEN 1 ELSE IF n < 0 THEN 0 - 1 ELSE 0
Abs(n) == IF n < 0 THEN 0 - n ELSE n

RECURSIVE GCD(_, _)
GCD(a, b) == IF b = 0 THEN a ELSE GCD(b, a % b)

Fraction(n, d) ==
  IF d = 0 THEN [n |-> Sign(n), d |-> 0]
  ELSE LET g == GCD(Abs(n), Abs(d))
       IN [n |-> Sign(n) * Sign(d) * (Abs(n) \div g), d |-> Abs(d) \div g]

NaN == [n |-> 0, d |-> 0]

\* the conversion float64(i) of an int
float64(i) == Fraction(i, 1)

FloatSum(x, y) ==
  IF x.d = 0 /\ y.d = 0 THEN (IF x = y THEN x ELSE NaN)
  ELSE Fraction(x.n * y.d + y.n * x.d, x.d * y.d)
FloatNegation(x) == [n |-> 0 - x.n, d |-> x.d]
FloatDifference(x, y) == FloatSum(x, FloatNegation(y))
FloatProduct(x, y) == Fraction(x.n * y.n, x.d * y.d)
FloatReciprocal(x) ==
  IF x.n = 0 THEN (IF x.d = 0 THEN NaN ELSE [n |-> 1, d |-> 0])
  ELSE [n |-> Sign(x.n) * x.d, d |-> Abs(x.n)]
FloatQuotient(x, y) == FloatProduct(x, FloatReciprocal(y))
FloatEqual(x, y) == x # NaN /\ y # NaN /\ x = y
FloatLess(x, y) ==
  /\ x # NaN
  /\ y # NaN
  /\ IF x.d = 0 /\ y.d = 0 THEN x.n < y.n ELSE x.n * y.d < y.n * x.d

\* the switch shared by evalFloatOperation, evalIntFloatOperation and
\* evalFloatIntOperation, on the two float64 values
floatSwitch(leftOperand, leftValue, operator, rightOperand, rightValue) ==
  CASE operator = "+" -> Float(FloatSum(leftValue, rightValue))
    [] operator = "-" -> Float(FloatDifference(leftValue, rightValue))
    [] operator = "*" -> Float(FloatProduct(leftValue, rightValue))
    [] operator = "/" -> Float(FloatQuotient(leftValue, rightValue))
    [] operator = "==" ->
         nativeToBooleanObject(FloatEqual(leftValue, rightValue))
    [] operator = "!=" ->
         nativeToBooleanObject(~FloatEqual(leftValue, rightValue))
    [] operator = "<" -> nativeToBooleanObject(FloatLess(leftValue, rightValue))
    [] operator = "<=" ->
         nativeToBooleanObject(FloatLess(leftValue, rightValue)
                                 \/ FloatEqual(leftValue, rightValue))
    [] operator = ">" -> nativeToBooleanObject(FloatLess(rightValue, leftValue))
    [] operator = ">=" ->
         nativeToBooleanObject(FloatLess(rightValue, leftValue)
                                 \/ FloatEqual(leftValue, rightValue))
    [] OTHER -> UnknownOperator(leftOperand, operator, rightOperand)

evalFloatOperation(leftOperand, operator, rightOperand) ==
  floatSwitch(leftOperand, leftOperand.fv, operator, rightOperand,
              rightOperand.fv)

evalIntFloatOperation(leftOperand, operator, rightOperand) ==
  floatSwitch(leftOperand, float64(leftOperand.iv), operator, rightOperand,
              rightOperand.fv)

evalFloatIntOperation(leftOperand, operator, rightOperand) ==
  floatSwitch(leftOperand, leftOperand.fv, operator, rightOperand,
              float64(rightOperand.iv))

evalArithmeticExpression(leftOperand, operator, rightOperand) ==
  CASE leftOperand.kind = "INTEGER" /\ rightOperand.kind = "INTEGER" ->
         evalIntOperation(leftOperand, operator, rightOperand)
    [] leftOperand.kind = "FLOAT" /\ rightOperand.kind = "FLOAT" ->
         evalFloatOperation(leftOperand, operator, rightOperand)
    [] leftOperand.kind = "INTEGER" /\ rightOperand.kind = "FLOAT" ->
         evalIntFloatOperation(leftOperand, operator, rightOperand)
    [] leftOperand.kind = "FLOAT" /\ rightOperand.kind = "INTEGER" ->
         evalFloatIntOperation(leftOperand, operator, rightOperand)

evalStringOperation(leftOperand, operator, rightOperand) ==
  LET leftValue == leftOperand.sv
      rightValue == rightOperand.sv
  IN CASE operator = "+" -> String(leftValue \o rightValue)
       [] operator = "==" -> nativeToBooleanObject(leftValue = rightValue)
       [] operator = "!=" -> nativeToBooleanObject(leftValue # rightValue)
       [] OTHER -> UnknownOperator(leftOperand, operator, rightOperand)

RECURSIVE evalInfixOperation(_, _, _)

\* the string's one-character strings, the array's elements, the hash's keys
Iter(obj) ==
  IF obj.kind = "STRING"
    THEN [i \in 1..Len(obj.sv) |-> String(SubSeq(obj.sv, i, i))]
  ELSE IF obj.kind = "HASH"
    THEN [i \in DOMAIN obj.keys |-> obj.Pairs[obj.keys[i]].Key]
  ELSE obj.Elements

Iterable(obj) == obj.kind \in {"STRING", "ARRAY", "HASH"}

RECURSIVE evalInScan(_, _, _)
evalInScan(leftOperand, elements, i) ==
  IF i > Len(elements) THEN FalseObj
  ELSE LET eq == evalInfixOperation(leftOperand, "==", elements[i])
       IN IF Aborted(eq) THEN eq
          ELSE IF eq = TrueObj THEN TrueObj
          ELSE evalInScan(leftOperand, elements, i + 1)

evalInExpression(leftOperand, rightOperand) ==
  IF Iterable(rightOperand)
    THEN IF rightOperand.kind = "HASH"
           THEN IF Hashable(leftOperand)
                     /\ HashKey(leftOperand) \in DOMAIN rightOperand.Pairs
                  THEN TrueObj
                  ELSE FalseObj
           ELSE evalInScan(leftOperand, Iter(rightOperand), 1)
    \* rightOperand.Type() on a nil interface panics
    ELSE IF rightOperand = NIL THEN PANIC
    ELSE newError("Invalid operand: in " \o rightOperand.kind)

evalInfixOperation(leftOperand, operator, rightOperand) ==
  IF operator = "&"
    THEN nativeToBooleanObject(isTrue(leftOperand) /\ isTrue(rightOperand))
  ELSE IF operator = "|"
    THEN nativeToBooleanObject(isTrue(leftOperand) \/ isTrue(rightOperand))
  ELSE IF operator = "in" THEN evalInExpression(leftOperand, rightOperand)
  \* leftOperand.Type() on a nil interface panics
  ELSE IF leftOperand = NIL THEN PANIC
  \* rightOperand.Type() is called only after the left operand passed a test
  ELSE IF leftOperand.kind \in {"INTEGER", "FLOAT", "STRING"}
            /\ rightOperand = NIL
    THEN PANIC
  ELSE IF leftOperand.kind \in {"INTEGER", "FLOAT"}
            /\ rightOperand.kind \in {"INTEGER", "FLOAT"}
    THEN evalArithmeticExpression(leftOperand, operator, rightOperand)
  ELSE IF leftOperand.kind = "STRING" /\ rightOperand.kind = "STRING"
    THEN evalStringOperation(leftOperand, operator, rightOperand)
  ELSE IF operator = "=="
    THEN nativeToBooleanObject(SameObject(leftOperand, rightOperand))
  ELSE IF operator = "!="
    THEN nativeToBooleanObject(~SameObject(leftOperand, rightOperand))
  ELSE IF rightOperand = NIL THEN PANIC
  ELSE IF leftOperand.kind # rightOperand.kind
    THEN newError("Type mismatch: " \o leftOperand.kind \o " " \o operator
                  \o " " \o rightOperand.kind)
  ELSE UnknownOperator(leftOperand, operator, rightOperand)

evalMinusExpression(operand) ==
  IF operand = NIL THEN PANIC
  ELSE IF operand.kind = "INTEGER" THEN Integer(0 - operand.iv)
  ELSE IF operand.kind = "FLOAT" THEN Float(FloatNegation(operand.fv))
  ELSE newError("Invalid operand: -" \o operand.kind)

evalBangExpression(operand) == nativeToBooleanObject(~isTrue(operand))

(***************************************************************************)
(* evaluator: builtins                                                     *)
(***************************************************************************)
builtins ==
  {"print", "type", "str", "len", "range", "reversed", "slice", "push", "pop",
   "unshift", "shift", "delete"}

WrongArguments(got, want) ==
  newError("Wrong number of arguments. Got=" \o ToString(got) \o " want="
           \o want)

\* print calls Inspect on every argument and returns Go's nil
print(arguments, m) ==
  IF \E i \in DOMAIN arguments : arguments[i] = NIL THEN R(PANIC, m)
  ELSE R(NIL, m)

typeOf(arguments, m) ==
  IF Len(arguments) # 1 THEN R(WrongArguments(Len(arguments), "1"), m)
  ELSE IF arguments[1] = NIL THEN R(PANIC, m)
  ELSE R(String(arguments[1].kind), m)

str(arguments, m) ==
  IF Len(arguments) # 1 THEN R(WrongArguments(Len(arguments), "1"), m)
  ELSE IF arguments[1] = NIL THEN R(PANIC, m)
  ELSE R(String(Inspect(arguments[1])), m)

length(arguments, m) ==
  IF Len(arguments) # 1 THEN R(WrongArguments(Len(arguments), "1"), m)
  ELSE IF arguments[1].kind = "STRING" THEN R(Integer(Len(arguments[1].sv)), m)
  ELSE IF arguments[1].kind = "ARRAY"
    THEN R(Integer(Len(arguments[1].Elements)), m)
  ELSE IF arguments[1].kind = "HASH"
    THEN R(Integer(Cardinality(DOMAIN arguments[1].Pairs)), m)
  ELSE IF arguments[1] = NIL THEN R(PANIC, m)
  ELSE R(newError("Cannot calculate len for argument of type "
                  \o arguments[1].kind), m)

rangeOf(arguments, m) ==
  IF Len(arguments) # 2 THEN R(WrongArguments(Len(arguments), "2"), m)
  ELSE IF arguments[1] = NIL \/ arguments[2] = NIL THEN R(PANIC, m)
  ELSE IF arguments[1].kind # arguments[2].kind
          \/ arguments[1].kind # "INTEGER"
    THEN R(newError("Argument to range must be INTEGERS. Got "
                    \o arguments[1].kind), m)
  ELSE LET start == arguments[1].iv
           end == arguments[2].iv
       IN IF end < start
            THEN R(newError("Need (end >= start). Got start="
                            \o IntString(start) \o " end=" \o IntString(end)),
                   m)
            ELSE NewArray([i \in 1..(end - start) |-> Integer(start + i - 1)],
                          m)

RECURSIVE Reverse(_)
Reverse(s) ==
  IF Len(s) <= 1 THEN s
  ELSE Reverse(SubSeq(s, 2, Len(s))) \o SubSeq(s, 1, 1)

reversed(arguments, m) ==
  IF Len(arguments) # 1 THEN R(WrongArguments(Len(arguments), "1"), m)
  ELSE IF arguments[1].kind = "STRING"
    THEN R(String(Reverse(arguments[1].sv)), m)
  ELSE IF arguments[1].kind = "ARRAY"
    THEN NewArray(Reverse(Contents(arguments[1], m)), m)
  ELSE IF arguments[1] = NIL THEN R(PANIC, m)
  ELSE R(newError("Cannot reverse value for argument of type "
                  \o arguments[1].kind), m)

min(num1, num2) == IF num1 < num2 THEN num1 ELSE num2

_len(iterable, m) ==
  IF iterable.kind = "STRING" THEN Len(iterable.sv)
  ELSE Len(Contents(iterable, m))

slice(arguments, m) ==
  IF Len(arguments) # 3 THEN R(WrongArguments(Len(arguments), "3"), m)
  ELSE IF arguments[1] = NIL THEN R(PANIC, m)
  ELSE IF arguments[1].kind # "ARRAY" /\ arguments[1].kind # "STRING"
    THEN R(newError("Cannot perform slice on argument of type "
                    \o arguments[1].kind), m)
  ELSE IF arguments[2] = NIL \/ arguments[3] = NIL THEN R(PANIC, m)
  ELSE IF arguments[2].kind # arguments[3].kind
          \/ arguments[2].kind # "INTEGER"
    THEN R(newError("Start and End values should be INTEGERS. Got="
                    \o arguments[2].kind \o ", " \o arguments[3].kind), m)
  ELSE LET iterable == arguments[1]
           len == _len(iterable, m)
           start == arguments[2].iv
           end == min(arguments[3].iv, len)
       IN IF 0 > start \/ start > len \/ start > end
            THEN R(newError("For slicing, (0 <= start < length) and "
                            \o "(start <= end). Got start="
                            \o IntString(start) \o ", end="
                            \o IntString(end)), m)
          ELSE IF iterable.kind = "STRING"
            THEN R(String(SubSeq(iterable.sv, start + 1, end)), m)
          ELSE NewSlice(iterable, start, end, m)

\* push without its make and copy: append(array.Elements, arguments[1:]...)
\* writes into the backing array of array while its capacity lasts
pushInPlace(arguments, m) ==
  IF Len(arguments) < 2
    THEN R(WrongArguments(Len(arguments), "minimum 2"), m)
  ELSE IF arguments[1] = NIL THEN R(PANIC, m)
  ELSE IF arguments[1].kind # "ARRAY"
    THEN R(newError("First argument to push must be ARRAY. Got "
                    \o arguments[1].kind), m)
  ELSE LET array == arguments[1]
           header == m.slices[array.ref]
           backing == m.heap[header.array]
           added == Tail(arguments)
       IN IF header.high + Len(added) <= Len(backing)
            THEN R(Array(Contents(array, m) \o added, m.nref + 1),
                   [m EXCEPT !.nref = @ + 1,
                             !.heap[header.array] =
                               [i \in DOMAIN backing |->
                                  IF i > header.high
                                     /\ i <= header.high + Len(added)
                                    THEN added[i - header.high]
                                    ELSE backing[i]],
                             !.slices = @ @@ ((m.nref + 1) :>
                                                [header EXCEPT !.high =
                                                   @ + Len(added)])])
            ELSE NewArray(Contents(array, m) \o added, m)

push(arguments, m) ==
  IF Len(arguments) < 2
    THEN R(WrongArguments(Len(arguments), "minimum 2"), m)
  ELSE IF arguments[1] = NIL THEN R(PANIC, m)
  ELSE IF arguments[1].kind # "ARRAY"
    THEN R(newError("First argument to push must be ARRAY. Got "
                    \o arguments[1].kind), m)
  ELSE NewArray(Contents(arguments[1], m) \o Tail(arguments), m)

pop(arguments, m) ==
  IF Len(arguments) # 1 THEN R(WrongArguments(Len(arguments), "1"), m)
  ELSE IF arguments[1] = NIL THEN R(PANIC, m)
  ELSE IF arguments[1].kind # "ARRAY"
    THEN R(newError("Argument to pop must be ARRAY. Got "
                    \o arguments[1].kind), m)
  ELSE LET elements == Contents(arguments[1], m)
       IN IF Len(elements) = 0
            THEN R(newError("Cannot pop from an empty array"), m)
            ELSE NewArray(SubSeq(elements, 1, Len(elements) - 1), m)

unShift(arguments, m) ==
  IF Len(arguments) < 2
    THEN R(WrongArguments(Len(arguments), "minimum 2"), m)
  ELSE IF arguments[1] = NIL THEN R(PANIC, m)
  ELSE IF arguments[1].kind # "ARRAY"
    THEN R(newError("First argument to unshift must be ARRAY. Got "
                    \o arguments[1].kind), m)
  ELSE NewArray(Tail(arguments) \o Contents(arguments[1], m), m)

shift(arguments, m) ==
  IF Len(arguments) # 1 THEN R(WrongArguments(Len(arguments), "1"), m)
  ELSE IF arguments[1] = NIL THEN R(PANIC, m)
  ELSE IF arguments[1].kind # "ARRAY"
    THEN R(newError("Argument to shift must be ARRAY. Got "
                    \o arguments[1].kind), m)
  ELSE LET elements == Contents(arguments[1], m)
       IN IF Len(elements) = 0
            THEN R(newError("Cannot pop from an empty array"), m)
            ELSE NewArray(Tail(elements), m)

delete(arguments, m) ==
  IF Len(arguments) # 2 THEN R(WrongArguments(Len(arguments), "1"), m)
  ELSE IF arguments[1] = NIL THEN R(PANIC, m)
  ELSE IF arguments[1].kind # "HASH"
    THEN R(newError("First argument to delete must be HASH. Got "
                    \o arguments[1].kind), m)
  ELSE IF arguments[2] = NIL THEN R(PANIC, m)
  ELSE IF ~Hashable(arguments[2])
    THEN R(newError("Key of type " \o arguments[2].kind
                    \o " cannot be hashed"), m)
  ELSE LET hash == arguments[1]
           pairs == Contents(hash, m)
           deleteKey == HashKey(arguments[2])
           Kept(key) == key # deleteKey
       IN NewHash([key \in DOMAIN pairs \ {deleteKey} |-> pairs[key]],
                  SelectSeq(hash.keys, Kept), m)

\* the call of a builtin: its arguments, its result and the memory before
\* and after it
BuiltinEvent(name, arguments, m, r) ==
  [name |-> name, arguments |-> arguments, res |-> r.val,
   before |-> [heap |-> m.heap, slices |-> m.slices, nref |-> m.nref],
   after |-> [heap |-> r.m.heap, slices |-> r.m.slices, nref |-> r.m.nref]]

Called(name, arguments, m, r) ==
  R(r.val, [r.m EXCEPT !.calls = Append(@, BuiltinEvent(name, arguments, m, r))])

applyBuiltin(name, arguments, m) ==
  Called(name, arguments, m,
         CASE name = "print" -> print(arguments, m)
           [] name = "type" -> typeOf(arguments, m)
           [] name = "str" -> str(arguments, m)
           [] name = "len" -> length(arguments, m)
           [] name = "range" -> rangeOf(arguments, m)
           [] name = "reversed" -> reversed(arguments, m)
           [] name = "slice" -> slice(arguments, m)
           [] name = "push" -> push(arguments, m)
           [] name = "pop" -> pop(arguments, m)
           [] name = "unshift" -> unShift(arguments, m)
           [] name = "shift" -> shift(arguments, m)
           [] name = "delete" -> delete(arguments, m))

(***************************************************************************)
(* evaluator: Eval and the evaluators it dispatches to.  Error messages    *)
(* leave out the token location.                                           *)
(***************************************************************************)
RECURSIVE Eval(_, _, _)

\* the loop of evalProgram from statement i on, result being the last value
RECURSIVE evalProgramFrom(_, _, _, _, _, _)
evalProgramFrom(program, i, result, env, m, sid) ==
  IF i > Len(program.Statements) THEN R(result, m)
  ELSE
    LET statement == program.Statements[i]
        r == Eval(statement, env, Log(m, BeginEvent(m, sid, i, statement, env)))
        m2 == Log(r.m, StmtEvent(r.m, sid, i, statement, env, r.val))
    IN IF Aborted(r.val) THEN R(r.val, m2)
       ELSE IF r.val.kind = "RETURN_VALUE" THEN R(r.val.rv, m2)
       ELSE IF r.val.kind = "ERROR" THEN R(r.val, m2)
       ELSE evalProgramFrom(program, i + 1, r.val, env, m2, sid)

evalProgram(program, env, m) ==
  LET sid == m.nseq + 1
      r == evalProgramFrom(program, 1, NIL, env, [m EXCEPT !.nseq = sid], sid)
  IN IF Aborted(r.val) THEN r
     ELSE R(r.val,
            Log(r.m, SeqEvent(r.m, sid, TRUE, Len(program.Statements), r.val)))

evalLetStatement(LetStmt, env, m) ==
  LET r == Eval(LetStmt.Value, env, m)
  IN IF Aborted(r.val) \/ isError(r.val) THEN r
     ELSE R(NIL, [r.m EXCEPT !.envs = Set(@, env, LetStmt.Name.Value, r.val)])

evalReturnStatement(returnStatement, env, m) ==
  LET r == Eval(returnStatement.ReturnValue, env, m)
  IN IF Aborted(r.val) \/ isError(r.val) THEN r
     ELSE R(ReturnValue(r.val), r.m)

\* evalBlockStatement with the test for a ReturnValue left out
RECURSIVE evalBlockFromNoStop(_, _, _, _, _, _)
evalBlockFromNoStop(block, i, result, env, m, sid) ==
  IF i > Len(block.Statements) THEN R(result, m)
  ELSE
    LET statement == block.Statements[i]
        r == Eval(statement, env, Log(m, BeginEvent(m, sid, i, statement, env)))
        m2 == Log(r.m, StmtEvent(r.m, sid, i, statement, env, r.val))
    IN IF Aborted(r.val) THEN R(r.val, m2)
       ELSE IF isError(r.val) THEN R(r.val, m2)
       ELSE evalBlockFromNoStop(block, i + 1, r.val, env, m2, sid)

\* the loop of evalBlockStatement from statement i on
RECURSIVE evalBlockFrom(_, _, _, _, _, _)
evalBlockFrom(block, i, result, env, m, sid) ==
  IF i > Len(block.Statements) THEN R(result, m)
  ELSE
    LET statement == block.Statements[i]
        r == Eval(statement, env, Log(m, BeginEvent(m, sid, i, statement, env)))
        m2 == Log(r.m, StmtEvent(r.m, sid, i, statement, env, r.val))
    IN IF Aborted(r.val) THEN R(r.val, m2)
       ELSE IF isError(r.val) THEN R(r.val, m2)
       ELSE IF r.val # NIL /\ r.val.kind = "RETURN_VALUE" THEN R(r.val, m2)
       ELSE evalBlockFrom(block, i + 1, r.val, env, m2, sid)

evalBlockStatement(block, env, m) ==
  LET sid == m.nseq + 1
      r == evalBlockFrom(block, 1, NIL, env, [m EXCEPT !.nseq = sid], sid)
  IN IF Aborted(r.val) THEN r
     ELSE R(r.val,
            Log(r.m, SeqEvent(r.m, sid, FALSE, Len(block.Statements), r.val)))

evalPrefixExpression(prefixExpression, env, m) ==
  LET r == Eval(prefixExpression.Right, env, m)
      operand == r.val
      operator == prefixExpression.Operator
  IN IF Aborted(operand) \/ isError(operand) THEN r
     ELSE IF operator = "-" THEN R(evalMinusExpression(operand), r.m)
     ELSE IF operator = "!" THEN R(evalBangExpression(operand), r.m)
     ELSE IF operand = NIL THEN R(PANIC, r.m)
     ELSE R(newError("Unknown operator: " \o operator \o operand.kind), r.m)

\* evalInfixExpression leaving the right operand of & and | alone when the
\* left one decides
evalInfixExpressionShortCircuit(infixExpression, env, m) ==
  LET l == Eval(infixExpression.Left, env, m)
      operator == infixExpression.Operator
  IN IF Aborted(l.val) \/ isError(l.val) THEN l
     ELSE IF operator = "&" /\ ~isTrue(l.val) THEN R(FalseObj, l.m)
     ELSE IF operator = "|" /\ isTrue(l.val) THEN R(TrueObj, l.m)
     ELSE LET r == Eval(infixExpression.Right, env, l.m)
          IN IF Aborted(r.val) \/ isError(r.val) THEN r
             ELSE R(evalInfixOperation(l.val, operator, r.val), r.m)

evalInfixExpression(infixExpression, env, m) ==
  LET l == Eval(infixExpression.Left, env, m)
  IN IF Aborted(l.val) \/ isError(l.val) THEN l
     ELSE LET r == Eval(infixExpression.Right, env, l.m)
          IN IF Aborted(r.val) \/ isError(r.val) THEN r
             ELSE R(evalInfixOperation(l.val, infixExpression.Operator, r.val),
                    r.m)

\* evalAssignExpression with the test that the variable is defined left out
evalAssignExpressionUnchecked(assignExpression, env, m) ==
  LET variable == assignExpression.Variable
      r == Eval(assignExpression.Value, env, m)
  IN IF Aborted(r.val) \/ isError(r.val) THEN r
     ELSE LET after == Update(r.m.envs, env, variable.Value, r.val)
          IN R(r.val,
               Log([r.m EXCEPT !.envs = after],
                   AssignEvent(r.m, env, variable.Value, r.m.envs, after,
                               r.val)))

evalAssignExpression(assignExpression, env, m) ==
  LET variable == assignExpression.Variable
  IN IF ~Get(m.envs, env, variable.Value).ok
       THEN R(newError("Identifier: " \o variable.Value \o " is not defined"),
              m)
       ELSE LET r == Eval(assignExpression.Value, env, m)
            IN IF Aborted(r.val) \/ isError(r.val) THEN r
               ELSE LET after == Update(r.m.envs, env, variable.Value, r.val)
                    IN R(r.val,
                         Log([r.m EXCEPT !.envs = after],
                             AssignEvent(r.m, env, variable.Value, r.m.envs,
                                         after, r.val)))

evalIfExpression(ifExpression, env, m) ==
  LET c == Eval(ifExpression.Condition, env, m)
  IN IF Aborted(c.val) \/ isError(c.val) THEN c
     ELSE IF isTrue(c.val) THEN Eval(ifExpression.Consequence, env, c.m)
     ELSE IF ifExpression.Alternate # NoNode
       THEN Eval(ifExpression.Alternate, env, c.m)
     ELSE R(NULL, c.m)

\* evalForExpression with the test for a ReturnValue left out
RECURSIVE evalForFromNoUnwind(_, _, _, _, _)
evalForFromNoUnwind(forExpression, array, i, localEnv, m) ==
  IF i > Len(array) THEN R(NIL, m)
  ELSE
    LET bound == [m EXCEPT !.envs = Set(@, localEnv,
                                        forExpression.Element.Value, array[i])]
        m1 == Log(bound, IterEvent(bound, localEnv, i))
        r == Eval(forExpression.Body, localEnv, m1)
    IN IF Aborted(r.val) \/ isError(r.val) THEN r
       ELSE evalForFromNoUnwind(forExpression, array, i + 1, localEnv, r.m)

\* the range loop of evalForExpression from element i on
RECURSIVE evalForFrom(_, _, _, _, _)
evalForFrom(forExpression, array, i, localEnv, m) ==
  IF i > Len(array) THEN R(NIL, m)
  ELSE
    LET bound == [m EXCEPT !.envs = Set(@, localEnv,
                                        forExpression.Element.Value, array[i])]
        m1 == Log(bound, IterEvent(bound, localEnv, i))
        r == Eval(forExpression.Body, localEnv, m1)
    IN IF Aborted(r.val) \/ isError(r.val) THEN r
       ELSE IF r.val # NIL /\ r.val.kind = "RETURN_VALUE" THEN r
       ELSE evalForFrom(forExpression, array, i + 1, localEnv, r.m)

\* evalForExpression binding the element in env itself, with no local
\* environment
evalForExpressionInEnv(forExpression, env, m) ==
  LET it == Eval(forExpression.Iterator, env, m)
      iterObject == it.val
  IN IF Aborted(iterObject) THEN it
     ELSE IF ~Iterable(iterObject)
       THEN IF iterObject = NIL THEN R(PANIC, it.m)
            ELSE R(newError(iterObject.kind \o ": is not iterable"), it.m)
     ELSE LET array == Iter(iterObject)
              m1 == Push(it.m, "loop", env)
              r == evalForFrom(forExpression, array, 1, env,
                               Log(m1, ForEvent(m1, env, env,
                                                forExpression.Element.Value,
                                                array)))
          IN IF Aborted(r.val) THEN R(r.val, Pop(r.m))
             ELSE R(r.val, Log(Pop(r.m), LoopEvent(Pop(r.m), env, r.val)))

evalForExpression(forExpression, env, m) ==
  LET it == Eval(forExpression.Iterator, env, m)
      iterObject == it.val
  IN IF Aborted(iterObject) THEN it
     ELSE IF ~Iterable(iterObject)
       \* iterObject.Type() on a nil interface panics
       THEN IF iterObject = NIL THEN R(PANIC, it.m)
            ELSE R(newError(iterObject.kind \o ": is not iterable"), it.m)
     ELSE LET envs1 == NewEnclosedEnvironment(it.m.envs, env)
              localEnv == Len(envs1)
              array == Iter(iterObject)
              m1 == Push([it.m EXCEPT !.envs = envs1], "loop", localEnv)
              r == evalForFrom(forExpression, array, 1, localEnv,
                               Log(m1, ForEvent(m1, localEnv, env,
                                                forExpression.Element.Value,
                                                array)))
          IN IF Aborted(r.val) THEN R(r.val, Pop(r.m))
             ELSE R(r.val, Log(Pop(r.m), LoopEvent(Pop(r.m), localEnv, r.val)))

\* the for { } loop of evalWhileExpression, k iterations done
RECURSIVE evalWhileFrom(_, _, _, _)
evalWhileFrom(whileExpression, k, localEnv, m) ==
  LET c == Eval(whileExpression.Condition, localEnv, m)
  IN IF Aborted(c.val) \/ isError(c.val) THEN c
     ELSE IF isTrue(c.val)
       THEN IF c.m.steps >= MaxSteps THEN R(DIVERGE, c.m)
            ELSE LET m1 == Log([c.m EXCEPT !.steps = @ + 1],
                               IterEvent(c.m, localEnv, k + 1))
                     r == Eval(whileExpression.Body, localEnv, m1)
                 IN IF Aborted(r.val) \/ isError(r.val) THEN r
                    ELSE IF r.val # NIL /\ r.val.kind = "RETURN_VALUE" THEN r
                    ELSE evalWhileFrom(whileExpression, k + 1, localEnv, r.m)
     ELSE R(NIL, c.m)

evalWhileExpression(whileExpression, env, m) ==
  LET envs1 == NewEnclosedEnvironment(m.envs, env)
      localEnv == Len(envs1)
      r == evalWhileFrom(whileExpression, 0, localEnv,
                         Push([m EXCEPT !.envs = envs1], "loop", localEnv))
  IN IF Aborted(r.val) THEN R(r.val, Pop(r.m))
     ELSE R(r.val, Log(Pop(r.m), LoopEvent(Pop(r.m), localEnv, r.val)))

\* evalArrayIndexExpression counting a negative index from the end
evalArrayIndexExpressionWrapping(array, index) ==
  LET len == Len(array.Elements)
      idx == IF index.iv < 0 THEN index.iv + len ELSE index.iv
  IN IF idx < 0 \/ idx > len - 1 THEN NULL ELSE array.Elements[idx + 1]

evalArrayIndexExpression(array, index) ==
  LET idx == index.iv
      max == Len(array.Elements) - 1
  IN IF idx < 0 \/ idx > max THEN NULL ELSE array.Elements[idx + 1]

evalStringIndexExpression(string, index) ==
  LET idx == index.iv
      max == Len(string.sv) - 1
  IN IF idx < 0 \/ idx > max THEN NULL
     ELSE String(SubSeq(string.sv, idx + 1, idx + 1))

evalHashIndexExpression(hash, index) ==
  \* index.Type() on a nil interface panics
  IF index = NIL THEN PANIC
  ELSE IF ~Hashable(index)
    THEN newError("Key: " \o index.kind \o " cannot be hashed")
  ELSE IF HashKey(index) \in DOMAIN hash.Pairs
    THEN hash.Pairs[HashKey(index)].Value
  ELSE NULL

evalIndexExpression(node, env, m) ==
  LET l == Eval(node.Array, env, m)
  IN IF Aborted(l.val) \/ isError(l.val) THEN l
     ELSE LET x == Eval(node.Index, env, l.m)
              left == l.val
              index == x.val
          IN IF Aborted(index) \/ isError(index) THEN x
             \* left.Type() and index.Type() on a nil interface panic
             ELSE IF left = NIL \/ index = NIL THEN R(PANIC, x.m)
             ELSE IF left.kind = "ARRAY" /\ index.kind = "INTEGER"
               THEN R(evalArrayIndexExpression(left, index), x.m)
             ELSE IF left.kind = "STRING" /\ index.kind = "INTEGER"
               THEN R(evalStringIndexExpression(left, index), x.m)
             ELSE IF left.kind = "HASH"
               THEN R(evalHashIndexExpression(left, index), x.m)
             ELSE R(newError("Index operation not supported for: "
                             \o left.kind \o "[" \o index.kind \o "]"), x.m)

\* evalExpressions: [vals, m]; on an Error, vals is that Error alone
RECURSIVE evalExpressionsFrom(_, _, _, _, _)
evalExpressionsFrom(expressions, i, result, env, m) ==
  IF i > Len(expressions) THEN [vals |-> result, m |-> m]
  ELSE LET r == Eval(expressions[i], env, m)
       IN IF Aborted(r.val) \/ isError(r.val)
            THEN [vals |-> <<r.val>>, m |-> r.m]
            ELSE evalExpressionsFrom(expressions, i + 1, Append(result, r.val),
                                     env, r.m)

evalExpressions(expressions, env, m) ==
  evalExpressionsFrom(expressions, 1, <<>>, env, m)

\* [env, ok, m]: the new environment; ok is FALSE when arguments[index] is
\* out of range, which panics
RECURSIVE bindParameters(_, _, _, _, _)
bindParameters(function, arguments, index, enclosedEnv, envs) ==
  IF index > Len(function.Parameters) THEN [ok |-> TRUE, envs |-> envs]
  ELSE IF index > Len(arguments) THEN [ok |-> FALSE, envs |-> envs]
  ELSE bindParameters(function, arguments, index + 1, enclosedEnv,
                      Set(envs, enclosedEnv, function.Parameters[index].Value,
                          arguments[index]))

\* getEnclosedFunctionEnv enclosing the environment of the caller, as its
\* comment has it
getEnclosedFunctionEnvOfCaller(function, arguments, m) ==
  LET caller == IF m.cstack = <<>> THEN 1 ELSE m.cstack[Len(m.cstack)][2]
      envs1 == NewEnclosedEnvironment(m.envs, caller)
      b == bindParameters(function, arguments, 1, Len(envs1), envs1)
  IN [env |-> Len(envs1), ok |-> b.ok, m |-> [m EXCEPT !.envs = b.envs]]

getEnclosedFunctionEnv(function, arguments, m) ==
  LET envs1 == NewEnclosedEnvironment(m.envs, function.Env)
      b == bindParameters(function, arguments, 1, Len(envs1), envs1)
  IN [env |-> Len(envs1), ok |-> b.ok, m |-> [m EXCEPT !.envs = b.envs]]

unwrapReturnValue(obj) ==
  IF obj.kind = "RETURN_VALUE" THEN obj.rv ELSE obj

applyFunction(function, arguments, m) ==
  IF function.kind = "FUNCTION"
    THEN IF m.steps >= MaxSteps THEN R(DIVERGE, m)
         ELSE LET g == getEnclosedFunctionEnv(function, arguments, m)
              IN IF ~g.ok THEN R(PANIC, g.m)
                 ELSE LET m1 == Log(Push([g.m EXCEPT !.steps = @ + 1], "call",
                                         g.env),
                                    CallEvent(g.m, function, g.env))
                          r == Eval(function.Body, g.env, m1)
                          m2 == Pop(r.m)
                          res == unwrapReturnValue(r.val)
                      IN IF Aborted(r.val) THEN R(r.val, m2)
                         ELSE R(res, Log(m2, RetEvent(m2, g.env, r.val, res)))
  ELSE IF function.kind = "BUILTIN"
    THEN applyBuiltin(function.Fn, arguments, m)
  \* function.Type() on a nil interface panics
  ELSE IF function = NIL THEN R(PANIC, m)
  ELSE R(newError(function.kind \o ": not a function"), m)

evalCallExpression(functionCall, env, m) ==
  LET f == Eval(functionCall.Function, env, m)
  IN IF Aborted(f.val) \/ isError(f.val) THEN f
     ELSE LET a == evalExpressions(functionCall.Arguments, env, f.m)
          IN IF Len(a.vals) = 1 /\ (Aborted(a.vals[1]) \/ isError(a.vals[1]))
               THEN R(a.vals[1], a.m)
               ELSE applyFunction(f.val, a.vals, a.m)

evalArrayLiteral(array, env, m) ==
  LET a == evalExpressions(array.Elements, env, m)
  IN IF Len(a.vals) = 1 /\ (Aborted(a.vals[1]) \/ isError(a.vals[1]))
       THEN R(a.vals[1], a.m)
       ELSE NewArray(a.vals, a.m)

\* the loop of evalHashLiteral from the i-th entry visited on
RECURSIVE evalHashPairsFrom(_, _, _, _, _, _, _)
evalHashPairsFrom(node, visit, i, pairs, keys, env, m) ==
  IF i > Len(visit)
    THEN NewHash(pairs, keys, m)
  ELSE LET keyNode == node.Pairs[visit[i]][1]
           valueNode == node.Pairs[visit[i]][2]
           k == Eval(keyNode, env, m)
           key == k.val
       IN IF Aborted(key) \/ isError(key) THEN k
          \* key.Type() on a nil interface panics
          ELSE IF key = NIL THEN R(PANIC, k.m)
          ELSE IF ~Hashable(key)
            THEN R(newError("Key: " \o key.kind \o " cannot be hashed"), k.m)
          ELSE LET v == Eval(valueNode, env, k.m)
                   value == v.val
                   hashed == HashKey(key)
               IN IF Aborted(value) \/ isError(value) THEN v
                  ELSE evalHashPairsFrom(
                         node, visit, i + 1,
                         [h \in DOMAIN pairs \cup {hashed} |->
                            IF h = hashed THEN HashPair(key, value)
                            ELSE pairs[h]],
                         IF hashed \in DOMAIN pairs THEN keys
                         ELSE Append(keys, hashed),
                         env, v.m)

evalHashLiteral(node, env, m) ==
  evalHashPairsFrom(node, Visit(m.order, Len(node.Pairs)), 1, NoPairs, <<>>,
                    env, m)

evalIdentifier(identifier, env, m) ==
  LET g == Get(m.envs, env, identifier.Value)
  IN IF g.ok THEN R(g.obj, m)
     ELSE IF identifier.Value \in builtins
       THEN R(Builtin(identifier.Value), m)
     ELSE R(newError("Identifier: " \o identifier.Value \o " not found"), m)

Eval(node, env, m) ==
  CASE node.type = "Program" -> evalProgram(node, env, m)
    [] node.type = "LetStatement" -> evalLetStatement(node, env, m)
    [] node.type = "ReturnStatement" -> evalReturnStatement(node, env, m)
    [] node.type = "BlockStatement" -> evalBlockStatement(node, env, m)
    [] node.type = "ExpressionStatement" -> Eval(node.Expression, env, m)
    [] node.type = "PrefixExpression" -> evalPrefixExpression(node, env, m)
    [] node.type = "InfixExpression" -> evalInfixExpression(node, env, m)
    [] node.type = "AssignExpression" -> evalAssignExpression(node, env, m)
    [] node.type = "IfExpression" -> evalIfExpression(node, env, m)
    [] node.type = "ForExpression" -> evalForExpression(node, env, m)
    [] node.type = "WhileExpression" -> evalWhileExpression(node, env, m)
    [] node.type = "IndexExpression" -> evalIndexExpression(node, env, m)
    [] node.type = "CallExpression" -> evalCallExpression(node, env, m)
    [] node.type = "Identifier" -> evalIdentifier(node, env, m)
    [] node.type = "IntegerLiteral" -> R(Integer(node.Value), m)
    [] node.type = "FloatLiteral" -> R(Float(node.Value), m)
    [] node.type = "BooleanLiteral" -> R(nativeToBooleanObject(node.Value), m)
    [] node.type = "StringLiteral" -> R(String(node.Value), m)
    [] node.type = "ArrayLiteral" -> evalArrayLiteral(node, env, m)
    [] node.type = "HashLiteral" -> evalHashLiteral(node, env, m)
    [] node.type = "FunctionLiteral" ->
         R(Function(node.Parameters, node.Body, env, m.nref + 1),
           Log([m EXCEPT !.nref = @ + 1], FnEvent(m, m.nref + 1, env)))
    \* no case for any other node: TryStatement, BreakStatement,
    \* ContinueStatement and a nil node evaluate to Go's nil
    [] OTHER -> R(NIL, m)

(***************************************************************************)
(* parser: the Pratt parser over the tokens the lexer hands it.  A token is *)
(* its Type and Literal; messages are without the location.  A function    *)
(* of the Go parser is an operator from the parser (and its arguments) to   *)
(* what it returns and the parser it leaves.                                *)
(***************************************************************************)
Token(type, literal) == [Type |-> type, Literal |-> literal]

\* what the lexer returns at the end of the input, again and again
EOF == Token("EOF", "")

\* a nil pointer of a node type converted to the ast.Statement interface,
\* which is not the nil interface
NilPointer(type) == [type |-> "nil", of |-> type]

LOWEST == 1
EQUALS == 2
LESS_GREATER == 3
SUM == 4
PRODUCT == 5
PREFIX == 6
CALL == 7
INDEX == 8

precedenceMap ==
  [t \in {"=", "==", "!=", "&", "|", "in", "<", "<=", ">", ">=", "+", "-",
          "*", "/", "(", "["} |->
     CASE t \in {"=", "==", "!=", "&", "|", "in"} -> EQUALS
       [] t \in {"<", "<=", ">", ">="} -> LESS_GREATER
       [] t \in {"+", "-"} -> SUM
       [] t \in {"*", "/"} -> PRODUCT
       [] t = "(" -> CALL
       [] t = "[" -> INDEX]

prefixParsers ==
  {"IDENTIFIER", "INTEGER", "FLOAT", "STRING", "TRUE", "FALSE", "FUNCTION",
   "[", "{", "-", "!", "(", "IF"}

infixParsers ==
  {"+", "-", "*", "/", "==", "!=", "<", "<=", ">", ">=", "&", "|", "in", "(",
   "[", "="}

\* lexer.ReadToken: the next token of the input, EOF from its end on
ReadToken(lexer) ==
  IF lexer.position <= Len(lexer.input) THEN lexer.input[lexer.position]
  ELSE EOF

curTokenIs(parser, tokenType) == parser.curToken.Type = tokenType
peekTokenIs(parser, tokenType) == parser.peekToken.Type = tokenType

curPrecedence(parser) ==
  IF parser.curToken.Type \in DOMAIN precedenceMap
    THEN precedenceMap[parser.curToken.Type]
    ELSE LOWEST

peekPrecedence(parser) ==
  IF parser.peekToken.Type \in DOMAIN precedenceMap
    THEN precedenceMap[parser.peekToken.Type]
    ELSE LOWEST

scanToken(parser) ==
  [parser EXCEPT !.curToken = parser.peekToken,
                 !.peekToken = ReadToken(parser.lexer),
                 !.lexer.position = @ + 1]

addError(parser, message) == [parser EXCEPT !.errors = Append(@, message)]

peekError(parser, expectedType) ==
  addError(parser, "Expected next token to be " \o expectedType \o ", got "
                     \o parser.peekToken.Type \o " instead")

expectPeek(parser, expectedType) ==
  IF peekTokenIs(parser, expectedType)
    THEN [ok |-> TRUE, parser |-> scanToken(parser)]
    ELSE [ok |-> FALSE, parser |-> peekError(parser, expectedType)]

\* no token yet: the Parser struct before New has scanned
NoToken == Token("", "")

New(input) ==
  scanToken(scanToken([lexer |-> [input |-> input, position |-> 1],
                       curToken |-> NoToken, peekToken |-> NoToken,
                       errors |-> <<>>]))

\* the Parser struct before New has made it
NoParser ==
  [lexer |-> [input |-> <<>>, position |-> 0], curToken |-> NoToken,
   peekToken |-> NoToken, errors |-> <<>>]

\* no String taken yet, and no second parse made yet
NoText == <<>>
NoParse == [errors |-> <<>>, printed |-> NoText, done |-> FALSE]

\* what a parse function returns, and the parser after it
PR(node, parser) == [node |-> node, parser |-> parser]

\* strconv.Atoi of the digits of an int
AtoiMax == 99
Atoi(literal) ==
  IF \E n \in 0..AtoiMax : ToString(n) = literal
    THEN [ok |-> TRUE, value |-> CHOOSE n \in 0..AtoiMax : ToString(n) = literal]
    ELSE [ok |-> FALSE, value |-> 0]

\* strconv.ParseFloat of digits, a point and one digit
ParseFloat(literal) ==
  LET Reads(n, k) == literal = ToString(n) \o "." \o ToString(k)
      Read == {nk \in (0..AtoiMax) \X (0..9) : Reads(nk[1], nk[2])}
  IN IF Read # {}
       THEN LET nk == CHOOSE nk \in Read : TRUE
            IN [ok |-> TRUE, value |-> Fraction(10 * nk[1] + nk[2], 10)]
       ELSE [ok |-> FALSE, value |-> NaN]

(***************************************************************************)
(* lexer: the tokens of a source text.  A byte is a string of one          *)
(* character and the byte 0 the empty string; Location is left out.         *)
(***************************************************************************)
NUL == ""

\* lexer.input[position], 0 from the end of the input on
charAt(input, position) ==
  IF position < Len(input) THEN SubSeq(input, position + 1, position + 1)
  ELSE NUL

\* the characters of a string
Chars(string) == {SubSeq(string, i, i) : i \in 1..Len(string)}

readChar(lexer) ==
  [lexer EXCEPT !.char = charAt(lexer.input, lexer.peekPosition),
                !.curPosition = lexer.peekPosition,
                !.peekPosition = @ + 1]

NewLexer(input) ==
  readChar([input |-> input, char |-> NUL, curPosition |-> 0,
            peekPosition |-> 0])

peekCharIs(lexer, expectedChar) ==
  charAt(lexer.input, lexer.peekPosition) = expectedChar

isLetter(char) ==
  char \in Chars("abcdefghijklmnopqrstuvwxyzABCDEFGHIJKLMNOPQRSTUVWXYZ_")

Digit == Chars("0123456789")

isNumber(char) == char \in Digit \/ char = "." \/ char = "-"

\* the lexer after the characters that are letters (are of a number), and
\* the string it has read from startIndex on
RECURSIVE readAheadIfPeekChar(_, _, _)
readAheadIfPeekChar(lexer, letters, startIndex) ==
  IF (IF letters THEN isLetter(lexer.char) ELSE isNumber(lexer.char))
    THEN readAheadIfPeekChar(readChar(lexer), letters, startIndex)
    ELSE [string |-> SubSeq(lexer.input, startIndex + 1, lexer.curPosition),
          lexer |-> lexer]

RECURSIVE readString(_, _)
readString(lexer, startIndex) ==
  LET next == readChar(lexer)
  IN IF next.char = "\"" \/ next.char = NUL
       THEN [string |-> SubSeq(next.input, startIndex + 1, next.curPosition),
             lexer |-> next]
       ELSE readString(next, startIndex)

RECURSIVE skipWhiteSpace(_)
skipWhiteSpace(lexer) ==
  IF lexer.char # NUL /\ lexer.char \in {" ", "\t", "\r", "\n"}
    THEN skipWhiteSpace(readChar(lexer))
    ELSE lexer

createToken(tokenType, literal) == Token(tokenType, literal)

Keywords ==
  [word \in {"let", "true", "false", "in", "if", "else", "for", "while", "fn",
             "return"} |->
     CASE word = "let" -> "LET"
       [] word = "true" -> "TRUE"
       [] word = "false" -> "FALSE"
       [] word = "in" -> "in"
       [] word = "if" -> "IF"
       [] word = "else" -> "ELSE"
       [] word = "for" -> "FOR"
       [] word = "while" -> "WHILE"
       [] word = "fn" -> "FUNCTION"
       [] word = "return" -> "RETURN"]

LookUpKeywords(word) ==
  IF word \in DOMAIN Keywords THEN Keywords[word] ELSE "IDENTIFIER"

resolveType(word) == LookUpKeywords(word)

\* strconv.ParseFloat accepts a string of the characters of a number that
\* the lexer reads (it starts with a digit or a point) when it has a digit,
\* at most one point and no minus sign
resolveNumberType(number) ==
  LET points == {i \in 1..Len(number) : SubSeq(number, i, i) = "."}
      digits == {i \in 1..Len(number) : SubSeq(number, i, i) \in Digit}
  IN IF "-" \in Chars(number) \/ digits = {} \/ Cardinality(points) > 1
       THEN "ILLEGAL"
     ELSE IF points # {} THEN "FLOAT"
     ELSE "INTEGER"

\* the two-character token when the next character is second, the
\* one-character token otherwise
twoCharToken(lexer, second, tokenType) ==
  IF peekCharIs(lexer, second)
    THEN [token |-> Token(tokenType, lexer.char \o second),
          lexer |-> readChar(readChar(lexer))]
    ELSE [token |-> createToken(lexer.char, lexer.char),
          lexer |-> readChar(lexer)]

\* ReadToken, once the white space is skipped
readTokenAt(lexer) ==
  LET char == lexer.char
      word == readAheadIfPeekChar(lexer, TRUE, lexer.curPosition)
      number == readAheadIfPeekChar(lexer, FALSE, lexer.curPosition)
      string == readString(lexer, lexer.curPosition + 1)
  IN CASE char = NUL ->
            [token |-> createToken("EOF", NUL), lexer |-> readChar(lexer)]
       [] char \in {"+", "-", "(", ")", "{", "}", "[", "]", ",", ";", ":",
                    "&", "|"} ->
            [token |-> createToken(char, char), lexer |-> readChar(lexer)]
       [] char = "/" -> twoCharToken(lexer, "*", "/*")
       [] char = "*" -> twoCharToken(lexer, "/", "*/")
       [] char = "=" -> twoCharToken(lexer, "=", "==")
       [] char = "!" -> twoCharToken(lexer, "=", "!=")
       [] char = "<" -> twoCharToken(lexer, "=", "<=")
       [] char = ">" -> twoCharToken(lexer, "=", ">=")
       [] char = "\"" ->
            [token |-> Token("STRING", string.string),
             lexer |-> readChar(string.lexer)]
       [] isLetter(char) ->
            [token |-> Token(resolveType(word.string), word.string),
             lexer |-> word.lexer]
       [] isNumber(char) /\ char # "-" ->
            [token |-> Token(resolveNumberType(number.string), number.string),
             lexer |-> number.lexer]
       [] OTHER ->
            [token |-> createToken("ILLEGAL", char), lexer |-> readChar(lexer)]

\* lexer.ReadToken on the text: the token and the lexer after it
ReadTokenOf(lexer) == readTokenAt(skipWhiteSpace(lexer))

\* the tokens ReadToken returns up to the first EOF
RECURSIVE TokensFrom(_, _)
TokensAppend(tokens, read) ==
  IF read.token.Type = "EOF" THEN tokens
  ELSE TokensFrom(Append(tokens, read.token), read.lexer)

TokensFrom(tokens, lexer) == TokensAppend(tokens, ReadTokenOf(lexer))

Tokens(input) == TokensFrom(<<>>, NewLexer(input))

(***************************************************************************)
(* parser: the parse functions                                             *)
(***************************************************************************)
RECURSIVE parseStatement(_)
RECURSIVE parseExpression(_, _)
RECURSIVE parseBlockStatement(_)

parseIdentifier(parser) == PR(Identifier(parser.curToken.Literal), parser)

parseIntegerLiteral(parser) ==
  LET conv == Atoi(parser.curToken.Literal)
  IN IF ~conv.ok
       THEN PR(NoNode, addError(parser, "Could not parse "
                                  \o parser.curToken.Literal \o " as integer"))
       ELSE PR(IntegerLiteral(conv.value), parser)

parseFloatLiteral(parser) ==
  LET conv == ParseFloat(parser.curToken.Literal)
  IN IF ~conv.ok
       THEN PR(NoNode, addError(parser, "Could not parse "
                                  \o parser.curToken.Literal \o " as float"))
       ELSE PR(FloatLiteral(conv.value), parser)

parseStringLiteral(parser) ==
  PR(StringLiteral(parser.curToken.Literal), parser)

parseBooleanLiteral(parser) ==
  PR(BooleanLiteral(curTokenIs(parser, "TRUE")), parser)

\* parsePrefixExpression, once the operand is parsed
prefixExpressionOf(operator, right) ==
  PR(PrefixExpression(operator, right.node), right.parser)

parsePrefixExpression(parser) ==
  prefixExpressionOf(parser.curToken.Literal,
                     parseExpression(scanToken(parser), PREFIX))

\* parseInfixExpression, once the right operand is parsed
infixExpressionOf(leftExpression, operator, right) ==
  PR(InfixExpression(leftExpression, operator, right.node), right.parser)

\* parseInfixExpression parsing the right operand one level lower, which
\* groups operators of one precedence to the right
parseInfixExpressionRightFirst(parser, leftExpression) ==
  infixExpressionOf(leftExpression, parser.curToken.Literal,
                    parseExpression(scanToken(parser),
                                    curPrecedence(parser) - 1))

parseInfixExpression(parser, leftExpression) ==
  infixExpressionOf(leftExpression, parser.curToken.Literal,
                    parseExpression(scanToken(parser), curPrecedence(parser)))

\* parseGroupedExpression, once the expression is parsed
groupedExpressionOf(groupedExpression) ==
  LET closed == expectPeek(groupedExpression.parser, ")")
  IN IF ~closed.ok THEN PR(NoNode, closed.parser)
     ELSE PR(groupedExpression.node, closed.parser)

parseGroupedExpression(parser) ==
  groupedExpressionOf(parseExpression(scanToken(parser), LOWEST))

\* the loop of parseExpressionList; a nil slice is the empty sequence
RECURSIVE parseExpressionListFrom(_, _, _)

\* arguments = append(arguments, parser.parseExpression(LOWEST))
parseExpressionListAppend(arguments, expression, endToken) ==
  parseExpressionListFrom(Append(arguments, expression.node),
                          expression.parser, endToken)

parseExpressionListFrom(arguments, parser, endToken) ==
  IF peekTokenIs(parser, ",")
    THEN parseExpressionListAppend(
           arguments, parseExpression(scanToken(scanToken(parser)), LOWEST),
           endToken)
    ELSE LET closed == expectPeek(parser, endToken)
         IN IF ~closed.ok THEN [list |-> <<>>, parser |-> closed.parser]
            ELSE [list |-> arguments, parser |-> closed.parser]

parseExpressionList(parser, endToken) ==
  IF peekTokenIs(parser, endToken)
    THEN [list |-> <<>>, parser |-> scanToken(parser)]
    ELSE parseExpressionListAppend(
           <<>>, parseExpression(scanToken(parser), LOWEST), endToken)

\* the loop of parseFunctionParameters
RECURSIVE parseFunctionParametersFrom(_, _)
parseFunctionParametersFrom(identifiers, parser) ==
  IF peekTokenIs(parser, ",")
    THEN LET at == scanToken(scanToken(parser))
         IN parseFunctionParametersFrom(
              Append(identifiers, Identifier(at.curToken.Literal)), at)
    ELSE LET closed == expectPeek(parser, ")")
         IN IF ~closed.ok THEN [list |-> <<>>, parser |-> closed.parser]
            ELSE [list |-> identifiers, parser |-> closed.parser]

parseFunctionParameters(parser) ==
  IF peekTokenIs(parser, ")")
    THEN [list |-> <<>>, parser |-> scanToken(parser)]
    ELSE LET at == scanToken(parser)
         IN parseFunctionParametersFrom(<<Identifier(at.curToken.Literal)>>,
                                        at)

\* parseCallExpression, once the arguments are parsed
callExpressionOf(function, arguments) ==
  PR(CallExpression(function, arguments.list), arguments.parser)

parseCallExpression(parser, function) ==
  callExpressionOf(function, parseExpressionList(parser, ")"))

\* parseArrayLiteral, once the elements are parsed
arrayLiteralOf(elements) == PR(ArrayLiteral(elements.list), elements.parser)

parseArrayLiteral(parser) == arrayLiteralOf(parseExpressionList(parser, "]"))

\* parseIndexExpression, once the index is parsed
indexExpressionOf(array, index) ==
  LET closed == expectPeek(index.parser, "]")
  IN IF ~closed.ok THEN PR(NoNode, closed.parser)
     ELSE PR(IndexExpression(array, index.node), closed.parser)

parseIndexExpression(parser, array) ==
  indexExpressionOf(array, parseExpression(scanToken(parser), LOWEST))

\* parseAssignExpression, once the value is parsed
assignExpressionOf(variable, value) ==
  PR(AssignExpression(variable.Value, value.node), value.parser)

\* parseAssignExpression parsing the value at the score of =, so that a
\* second = is left to the caller's loop
parseAssignExpressionAtEquals(parser, identifier) ==
  IF identifier.type # "Identifier"
    THEN PR(NoNode, addError(parser, "Cannot assign value to a non-identifier"))
    ELSE assignExpressionOf(identifier,
                            parseExpression(scanToken(parser), EQUALS))

parseAssignExpression(parser, identifier) ==
  IF identifier.type # "Identifier"
    THEN PR(NoNode, addError(parser, "Cannot assign value to a non-identifier"))
    ELSE assignExpressionOf(identifier,
                            parseExpression(scanToken(parser), LOWEST))

\* the loop of parseHashLiteral
RECURSIVE parseHashPairsFrom(_, _)

\* one turn of the loop, once the value is parsed
parseHashPairValue(pairs, key, value) ==
  LET added == Append(pairs, <<key.node, value.node>>)
      comma == expectPeek(value.parser, ",")
  IN IF ~peekTokenIs(value.parser, "}")
       THEN IF ~comma.ok THEN PR(NoNode, comma.parser)
            ELSE parseHashPairsFrom(added, comma.parser)
       ELSE parseHashPairsFrom(added, value.parser)

\* one turn of the loop, once the key is parsed
parseHashPairKey(pairs, key) ==
  LET colon == expectPeek(key.parser, ":")
  IN IF ~colon.ok THEN PR(NoNode, colon.parser)
     ELSE parseHashPairValue(
            pairs, key, parseExpression(scanToken(colon.parser), LOWEST))

parseHashPairsFrom(pairs, parser) ==
  IF ~peekTokenIs(parser, "}")
    THEN parseHashPairKey(pairs, parseExpression(scanToken(parser), LOWEST))
    ELSE LET closed == expectPeek(parser, "}")
         IN IF ~closed.ok THEN PR(NoNode, closed.parser)
            ELSE PR(HashLiteral(pairs), closed.parser)

parseHashLiteral(parser) == parseHashPairsFrom(<<>>, parser)

\* parseFunctionLiteral, once the body is parsed
functionLiteralOf(parameters, body) ==
  PR(FunctionLiteral(parameters, body.node), body.parser)

parseFunctionLiteral(parser) ==
  LET open == expectPeek(parser, "(")
      parameters == parseFunctionParameters(open.parser)
      brace == expectPeek(parameters.parser, "{")
  IN IF ~open.ok THEN PR(NoNode, open.parser)
     ELSE IF ~brace.ok THEN PR(NoNode, brace.parser)
     ELSE functionLiteralOf(parameters.list,
                            parseBlockStatement(brace.parser))

\* the optional ( before and ) after the head of if, for, while and catch
openParenthesis(parser) ==
  IF peekTokenIs(parser, "(") THEN scanToken(parser) ELSE parser

closeParenthesis(hashParentheses, parser) ==
  IF hashParentheses THEN expectPeek(parser, ")")
  ELSE [ok |-> TRUE, parser |-> parser]

\* parseIfExpression, once the block after else is parsed
ifExpressionOf(condition, consequence, alternate) ==
  PR(IfExpression(condition, consequence, alternate.node), alternate.parser)

\* parseIfExpression, once the consequence is parsed
parseIfAlternate(condition, consequence) ==
  LET other == expectPeek(scanToken(consequence.parser), "{")
  IN IF peekTokenIs(consequence.parser, "ELSE")
       THEN IF ~other.ok THEN PR(NoNode, other.parser)
            ELSE ifExpressionOf(condition, consequence.node,
                                parseBlockStatement(other.parser))
       ELSE PR(IfExpression(condition, consequence.node, NoNode),
               consequence.parser)

\* parseIfExpression, once the condition is parsed
parseIfConsequence(hashParentheses, condition) ==
  LET closed == closeParenthesis(hashParentheses, condition.parser)
      brace == expectPeek(closed.parser, "{")
  IN IF ~closed.ok THEN PR(NoNode, closed.parser)
     ELSE IF ~brace.ok THEN PR(NoNode, brace.parser)
     ELSE parseIfAlternate(condition.node, parseBlockStatement(brace.parser))

parseIfExpression(parser) ==
  parseIfConsequence(
    peekTokenIs(parser, "("),
    parseExpression(scanToken(openParenthesis(parser)), LOWEST))

\* prefix := parser.prefixParsers[parser.curToken.Type]; prefix()
prefix(parser) ==
  LET type == parser.curToken.Type
  IN CASE type = "IDENTIFIER" -> parseIdentifier(parser)
       [] type = "INTEGER" -> parseIntegerLiteral(parser)
       [] type = "FLOAT" -> parseFloatLiteral(parser)
       [] type = "STRING" -> parseStringLiteral(parser)
       [] type \in {"TRUE", "FALSE"} -> parseBooleanLiteral(parser)
       [] type = "FUNCTION" -> parseFunctionLiteral(parser)
       [] type = "[" -> parseArrayLiteral(parser)
       [] type = "{" -> parseHashLiteral(parser)
       [] type \in {"-", "!"} -> parsePrefixExpression(parser)
       [] type = "(" -> parseGroupedExpression(parser)
       [] type = "IF" -> parseIfExpression(parser)

\* infix := parser.infixParsers[parser.peekToken.Type]; infix(leftExpression)
infix(parser, leftExpression) ==
  LET type == parser.curToken.Type
  IN CASE type = "(" -> parseCallExpression(parser, leftExpression)
       [] type = "[" -> parseIndexExpression(parser, leftExpression)
       [] type = "=" -> parseAssignExpression(parser, leftExpression)
       [] OTHER -> parseInfixExpression(parser, leftExpression)

\* the loop of parseExpression, from the left expression parsed so far
RECURSIVE parseInfixFrom(_, _)
parseInfixFrom(leftExpression, precedence) ==
  IF /\ ~peekTokenIs(leftExpression.parser, ";")
     /\ peekPrecedence(leftExpression.parser) > precedence
    THEN IF leftExpression.parser.peekToken.Type \notin infixParsers
           THEN leftExpression
           ELSE parseInfixFrom(infix(scanToken(leftExpression.parser),
                                     leftExpression.node),
                               precedence)
    ELSE leftExpression

parseExpression(parser, precedence) ==
  IF parser.curToken.Type \notin prefixParsers
    THEN PR(NoNode,
            addError(parser,
                     IF parser.curToken.Type = "ILLEGAL"
                       THEN "Illegal token: " \o parser.curToken.Literal
                       ELSE "No prefix parse function registered for "
                              \o parser.curToken.Type))
    ELSE parseInfixFrom(prefix(parser), precedence)

\* the optional ; after a statement
skipSemicolon(parser) ==
  IF peekTokenIs(parser, ";") THEN scanToken(parser) ELSE parser

RECURSIVE parseComment(_)
RECURSIVE parseCommentToClose(_)
\* parseComment without the test for EOF: it scans until the comment is
\* closed, followed here for as many reads as three times the input
parseCommentToClose(parser) ==
  IF ~curTokenIs(parser, "*/")
     /\ parser.lexer.position <= 3 * (Len(parser.lexer.input) + 1)
    THEN parseCommentToClose(scanToken(parser))
    ELSE PR(NoNode, parser)

parseComment(parser) ==
  IF ~curTokenIs(parser, "*/") /\ ~curTokenIs(parser, "EOF")
    THEN parseComment(scanToken(parser))
    ELSE PR(NoNode, parser)

\* parseLetStatement, once the value is parsed
letStatementOf(name, value) ==
  PR(LetStatement(name, value.node), skipSemicolon(value.parser))

parseLetStatement(parser) ==
  LET name == expectPeek(parser, "IDENTIFIER")
      assign == expectPeek(name.parser, "=")
  IN IF ~name.ok THEN PR(NilPointer("LetStatement"), name.parser)
     ELSE IF ~assign.ok THEN PR(NilPointer("LetStatement"), assign.parser)
     ELSE letStatementOf(name.parser.curToken.Literal,
                         parseExpression(scanToken(assign.parser), LOWEST))

\* parseReturnStatement, once the value is parsed
returnStatementOf(value) ==
  PR(ReturnStatement(value.node), skipSemicolon(value.parser))

parseReturnStatement(parser) ==
  returnStatementOf(parseExpression(scanToken(parser), LOWEST))

\* parseExpressionStatement, once the expression is parsed
expressionStatementOf(expression) ==
  PR(ExpressionStatement(expression.node), skipSemicolon(expression.parser))

parseExpressionStatement(parser) ==
  expressionStatementOf(parseExpression(parser, LOWEST))

\* the loop of parseBlockStatement
RECURSIVE parseBlockFrom(_, _)

\* if statement != nil { append }; parser.scanToken()
parseBlockAppend(statements, statement) ==
  parseBlockFrom(IF statement.node # NoNode
                   THEN Append(statements, statement.node)
                   ELSE statements,
                 scanToken(statement.parser))

parseBlockFrom(statements, parser) ==
  IF ~curTokenIs(parser, "}") /\ ~curTokenIs(parser, "EOF")
    THEN parseBlockAppend(statements, parseStatement(parser))
    ELSE IF ~curTokenIs(parser, "}") THEN PR(NoNode, parser)
    ELSE PR(BlockStatement(statements), parser)

parseBlockStatement(parser) == parseBlockFrom(<<>>, scanToken(parser))

\* parseForStatement, once the body is parsed; the ast.ForStatement of the
\* parser is the ForExpression of the ast file
forStatementOf(element, iterator, body) ==
  PR(ForExpression(element, iterator, body.node), body.parser)

\* parseForStatement, once the iterator is parsed
parseForBody(hashParentheses, element, iterator) ==
  LET closed == closeParenthesis(hashParentheses, iterator.parser)
      brace == expectPeek(closed.parser, "{")
  IN IF ~closed.ok THEN PR(NilPointer("ForStatement"), closed.parser)
     ELSE IF ~brace.ok THEN PR(NilPointer("ForStatement"), brace.parser)
     ELSE forStatementOf(element, iterator.node,
                         parseBlockStatement(brace.parser))

parseForStatement(parser) ==
  LET hashParentheses == peekTokenIs(parser, "(")
      element == expectPeek(openParenthesis(parser), "IDENTIFIER")
      inToken == expectPeek(element.parser, "in")
  IN IF ~element.ok THEN PR(NilPointer("ForStatement"), element.parser)
     ELSE IF ~inToken.ok THEN PR(NilPointer("ForStatement"), inToken.parser)
     ELSE parseForBody(hashParentheses, element.parser.curToken.Literal,
                       parseExpression(scanToken(inToken.parser), LOWEST))

\* parseWhileStatement, once the body is parsed; the ast.WhileStatement of
\* the parser is the WhileExpression of the ast file
whileStatementOf(condition, body) ==
  PR(WhileExpression(condition, body.node), body.parser)

\* parseWhileStatement, once the condition is parsed
parseWhileBody(hashParentheses, condition) ==
  LET closed == closeParenthesis(hashParentheses, condition.parser)
      brace == expectPeek(closed.parser, "{")
  IN IF ~closed.ok THEN PR(NilPointer("WhileStatement"), closed.parser)
     ELSE IF ~brace.ok THEN PR(NilPointer("WhileStatement"), brace.parser)
     ELSE whileStatementOf(condition.node, parseBlockStatement(brace.parser))

parseWhileStatement(parser) ==
  parseWhileBody(peekTokenIs(parser, "("),
                 parseExpression(scanToken(openParenthesis(parser)), LOWEST))

parseBreakStatement(parser) == PR(BreakStatement, skipSemicolon(parser))

parseContinueStatement(parser) == PR(ContinueStatement, skipSemicolon(parser))

\* parseTryStatement, once the finally block is parsed
tryStatementOf(try, error, catch, finally) ==
  PR(TryStatement(try, error, catch, finally.node), finally.parser)

\* parseTryStatement, once the catch block is parsed
parseTryFinally(try, error, catch) ==
  LET brace == expectPeek(scanToken(catch.parser), "{")
  IN IF peekTokenIs(catch.parser, "FINALLY")
       THEN IF ~brace.ok THEN PR(NilPointer("TryStatement"), brace.parser)
            ELSE tryStatementOf(try, error, catch.node,
                                parseBlockStatement(brace.parser))
       ELSE PR(TryStatement(try, error, catch.node, NoNode), catch.parser)

\* parseTryStatement, once the try block is parsed
parseTryCatch(try) ==
  LET catch == expectPeek(try.parser, "CATCH")
      hashParentheses == peekTokenIs(catch.parser, "(")
      error == expectPeek(openParenthesis(catch.parser), "IDENTIFIER")
      closed == closeParenthesis(hashParentheses, error.parser)
      brace == expectPeek(closed.parser, "{")
  IN IF ~catch.ok THEN PR(NilPointer("TryStatement"), catch.parser)
     ELSE IF ~error.ok THEN PR(NilPointer("TryStatement"), error.parser)
     ELSE IF ~closed.ok THEN PR(NilPointer("TryStatement"), closed.parser)
     ELSE IF ~brace.ok THEN PR(NilPointer("TryStatement"), brace.parser)
     ELSE parseTryFinally(try.node, error.parser.curToken.Literal,
                          parseBlockStatement(brace.parser))

parseTryStatement(parser) ==
  LET open == expectPeek(parser, "{")
  IN IF ~open.ok THEN PR(NilPointer("TryStatement"), open.parser)
     ELSE parseTryCatch(parseBlockStatement(open.parser))

parseStatement(parser) ==
  LET type == parser.curToken.Type
  IN CASE type = "/*" -> parseComment(parser)
       [] type = "LET" -> parseLetStatement(parser)
       [] type = "RETURN" -> parseReturnStatement(parser)
       [] type = "FOR" -> parseForStatement(parser)
       [] type = "WHILE" -> parseWhileStatement(parser)
       [] type = "BREAK" -> parseBreakStatement(parser)
       [] type = "CONTINUE" -> parseContinueStatement(parser)
       [] type = "TRY" -> parseTryStatement(parser)
       [] OTHER -> parseExpressionStatement(parser)

\* the loop of ParseProgram
RECURSIVE parseProgramFrom(_, _)

\* if statement != nil { append }; parser.scanToken()
parseProgramAppend(statements, statement) ==
  parseProgramFrom(IF statement.node # NoNode
                     THEN Append(statements, statement.node)
                     ELSE statements,
                   scanToken(statement.parser))

parseProgramFrom(statements, parser) ==
  IF parser.curToken.Type # "EOF"
    THEN parseProgramAppend(statements, parseStatement(parser))
    ELSE PR(Program(statements), parser)

ParseProgram(parser) == parseProgramFrom(<<>>, parser)

(***************************************************************************)
(* ast: String, the source text of a node.  The literal of the token of a  *)
(* literal node is the text the parser converted to its Value.             *)
(***************************************************************************)
\* the literal parseFloatLiteral converted to f
FloatTokenLiteral(f) ==
  LET tenths == (10 * f.n) \div f.d
  IN ToString(tenths \div 10) \o "." \o ToString(tenths % 10)

\* strings.Join
RECURSIVE Join(_, _)
Join(strings, separator) ==
  IF strings = <<>> THEN ""
  ELSE IF Len(strings) = 1 THEN strings[1]
  ELSE strings[1] \o separator \o Join(Tail(strings), separator)

\* the String of the node; a range over the Pairs of a hash literal of k
\* pairs visits them in the order of order's indices up to k
RECURSIVE NodeString(_, _)
RECURSIVE BlockString(_, _)
NodeStrings(nodes, order) ==
  [i \in DOMAIN nodes |-> NodeString(nodes[i], order)]

BlockString(statements, order) ==
  IF statements = <<>> THEN ""
  ELSE "\n" \o NodeString(Head(statements), order)
         \o BlockString(Tail(statements), order)

NodeString(node, order) ==
  CASE node.type = "Program" -> Join(NodeStrings(node.Statements, order), "")
    [] node.type = "LetStatement" ->
         "let" \o " " \o NodeString(node.Name, order) \o " = "
           \o (IF node.Value # NoNode THEN NodeString(node.Value, order)
               ELSE "")
    [] node.type = "ReturnStatement" ->
         "return" \o " "
           \o (IF node.ReturnValue # NoNode
                 THEN NodeString(node.ReturnValue, order)
                 ELSE "")
    [] node.type = "ExpressionStatement" ->
         IF node.Expression # NoNode THEN NodeString(node.Expression, order)
         ELSE ""
    [] node.type = "BlockStatement" ->
         "{" \o BlockString(node.Statements, order) \o "\n}"
    [] node.type = "PrefixExpression" ->
         node.Operator \o NodeString(node.Right, order)
    [] node.type = "InfixExpression" ->
         NodeString(node.Left, order) \o " " \o node.Operator \o " "
           \o NodeString(node.Right, order)
    [] node.type = "AssignExpression" ->
         NodeString(node.Variable, order) \o " = "
           \o NodeString(node.Value, order)
    [] node.type = "IndexExpression" ->
         NodeString(node.Array, order) \o "["
           \o NodeString(node.Index, order) \o "]"
    [] node.type = "IfExpression" ->
         "if" \o "(" \o NodeString(node.Condition, order) \o ") "
           \o NodeString(node.Consequence, order)
           \o (IF node.Alternate # NoNode
                 THEN " else " \o NodeString(node.Alternate, order)
                 ELSE "")
    [] node.type = "ForExpression" ->
         "for" \o "(" \o NodeString(node.Element, order) \o " in "
           \o NodeString(node.Iterator, order) \o ") "
           \o NodeString(node.Body, order)
    [] node.type = "WhileExpression" ->
         "while" \o "(" \o NodeString(node.Condition, order) \o ") "
           \o NodeString(node.Body, order)
    [] node.type = "CallExpression" ->
         NodeString(node.Function, order) \o "("
           \o Join(NodeStrings(node.Arguments, order), ", ") \o ")"
    [] node.type = "Identifier" -> node.Value
    [] node.type = "IntegerLiteral" -> ToString(node.Value)
    [] node.type = "FloatLiteral" -> FloatTokenLiteral(node.Value)
    [] node.type = "BooleanLiteral" ->
         IF node.Value THEN "true" ELSE "false"
    [] node.type = "StringLiteral" -> node.Value
    [] node.type = "ArrayLiteral" ->
         "[" \o Join(NodeStrings(node.Elements, order), ", ") \o "]"
    [] node.type = "HashLiteral" ->
         LET visited == Visit(order, Len(node.Pairs))
             pair(i) ==
               NodeString(node.Pairs[visited[i]][1], order) \o ":"
                 \o NodeString(node.Pairs[visited[i]][2], order)
         IN "{" \o Join([i \in DOMAIN visited |-> pair(i)], ", ") \o "}"
    [] node.type = "FunctionLiteral" ->
         "" \o "fn(" \o Join(NodeStrings(node.Parameters, order), ", ")
           \o ") " \o NodeString(node.Body, order)

(***************************************************************************)
(* The inputs: parsed programs.  Names of the programs' variables: u is    *)
(* never declared.                                                         *)
(***************************************************************************)
Stmt(e) == ExpressionStatement(e)
Lit(n) == IntegerLiteral(n)
\* the float literal of n/d, as strconv.ParseFloat reads it
Flt(n, d) == FloatLiteral(Fraction(n, d))
Id(name) == Identifier(name)
Call(function, arguments) == CallExpression(Id(function), arguments)
Fn(params, stmts) ==
  FunctionLiteral([i \in DOMAIN params |-> Id(params[i])], BlockStatement(stmts))
If(cond, stmts) == IfExpression(cond, BlockStatement(stmts), NoNode)
IfElse(cond, cons, alt) ==
  IfExpression(cond, BlockStatement(cons), BlockStatement(alt))
\* n = n + 1
Increment(name) ==
  Stmt(AssignExpression(name, InfixExpression(Id(name), "+", Lit(1))))

SeqsUpTo(S, n) == UNION {[1..k -> S] : k \in 0..n}

\* statement sequences: a value, a declaration, a return, an Error
SequenceAtoms ==
  {Stmt(Lit(1)), LetStatement("x", Lit(2)), ReturnStatement(Lit(2)),
   Stmt(Id("u"))}

\* a sequence as the program body, as the block of an if, as the body of a
\* called function and as the body of a loop, each followed by a statement
SequencePrograms ==
  LET seqs == SeqsUpTo(SequenceAtoms, MaxLen)
  IN {Program(ss) : ss \in seqs}
     \cup {Program(<<Stmt(If(BooleanLiteral(TRUE), ss)), Stmt(Lit(1))>>) :
             ss \in seqs}
     \cup {Program(<<Stmt(CallExpression(Fn(<<>>, ss), <<>>)), Stmt(Lit(1))>>) :
             ss \in seqs}
     \cup {Program(<<Stmt(ForExpression("i", ArrayLiteral(<<Lit(1), Lit(2)>>),
                                        BlockStatement(ss))),
                     Stmt(Lit(1))>>) : ss \in seqs}

\* return 1 inside up to d nested blocks: the branch of an if, the branch of
\* an else, the body of a for (left in its first or in its second
\* iteration) and the body of a while; n = n + 1 follows in each block
RECURSIVE Wrapped(_)
Wrapped(d) ==
  IF d = 0 THEN {ReturnStatement(Lit(1))}
  ELSE LET inner == Wrapped(d - 1)
           OneTwo == ArrayLiteral(<<Lit(1), Lit(2)>>)
       IN inner \cup UNION {
            {Stmt(If(BooleanLiteral(TRUE), <<w, Increment("n")>>)),
             Stmt(IfElse(BooleanLiteral(FALSE), <<>>, <<w, Increment("n")>>)),
             Stmt(ForExpression("i", OneTwo,
                                BlockStatement(<<w, Increment("n")>>))),
             Stmt(ForExpression("i", OneTwo,
                    BlockStatement(
                      <<Stmt(If(InfixExpression(Id("i"), "==", Lit(2)), <<w>>)),
                        Increment("n")>>))),
             Stmt(WhileExpression(BooleanLiteral(TRUE),
                                  BlockStatement(<<w, Increment("n")>>)))} :
            w \in inner}

\* let n = 0; let f = fn() { W; n = n + 1; return 2 }; f()
ReturnPrograms ==
  {Program(<<LetStatement("n", Lit(0)),
             LetStatement("f", Fn(<<>>, <<w, Increment("n"),
                                         ReturnStatement(Lit(2))>>)),
             Stmt(Call("f", <<>>))>>) : w \in Wrapped(MaxDepth)}

\* closures: the free variable x of a function body, the caller having
\* another x
\*   let x = a; let f = fn() { x }; let g = fn() { let x = b; f() }; g()
CalledFromAnotherScope(a, b) ==
  Program(<<LetStatement("x", Lit(a)),
            LetStatement("f", Fn(<<>>, <<Stmt(Id("x"))>>)),
            LetStatement("g", Fn(<<>>, <<LetStatement("x", Lit(b)),
                                        Stmt(Call("f", <<>>))>>)),
            Stmt(Call("g", <<>>))>>)
\*   let mk = fn() { let x = a; fn() { x } }; let h = mk(); let x = b; h()
CalledAfterOuterReturned(a, b) ==
  Program(<<LetStatement("mk", Fn(<<>>, <<LetStatement("x", Lit(a)),
                                         Stmt(Fn(<<>>, <<Stmt(Id("x"))>>))>>)),
            LetStatement("h", Call("mk", <<>>)),
            LetStatement("x", Lit(b)),
            Stmt(Call("h", <<>>))>>)
\*   let mk = fn(x) { fn() { x } }; let h = mk(a); let g = fn(x) { h() }; g(b)
CalledWithParameters(a, b) ==
  Program(<<LetStatement("mk", Fn(<<"x">>, <<Stmt(Fn(<<>>, <<Stmt(Id("x"))>>))>>)),
            LetStatement("h", Call("mk", <<Lit(a)>>)),
            LetStatement("g", Fn(<<"x">>, <<Stmt(Call("h", <<>>))>>)),
            Stmt(Call("g", <<Lit(b)>>))>>)
\*   let x = a; let f = fn() { x }; let r = 0; for x in [b] { r = f() }; r
CalledFromLoop(a, b) ==
  Program(<<LetStatement("x", Lit(a)),
            LetStatement("f", Fn(<<>>, <<Stmt(Id("x"))>>)),
            LetStatement("r", Lit(0)),
            Stmt(ForExpression("x", ArrayLiteral(<<Lit(b)>>),
                   BlockStatement(
                     <<Stmt(AssignExpression("r", Call("f", <<>>)))>>))),
            Stmt(Id("r"))>>)

Values == 1..MaxInt

ClosurePrograms ==
  UNION {{CalledFromAnotherScope(a, b), CalledAfterOuterReturned(a, b),
          CalledWithParameters(a, b), CalledFromLoop(a, b)} :
         a \in Values, b \in Values}

\* two closures over one environment, one reading and one assigning c
\*   let mk = fn() { let c = a; [fn() { c }, fn(v) { c = v }] };
\*   let p = mk(); let get = p[0]; let set = p[1]; set(b); get()
SharedCallEnv(a, b) ==
  Program(<<LetStatement("mk",
              Fn(<<>>, <<LetStatement("c", Lit(a)),
                         Stmt(ArrayLiteral(
                           <<Fn(<<>>, <<Stmt(Id("c"))>>),
                             Fn(<<"v">>, <<Stmt(AssignExpression("c", Id("v")))>>)
                           >>))>>)),
            LetStatement("p", Call("mk", <<>>)),
            LetStatement("get", IndexExpression(Id("p"), Lit(0))),
            LetStatement("set", IndexExpression(Id("p"), Lit(1))),
            Stmt(Call("set", <<Lit(b)>>)),
            Stmt(Call("get", <<>>))>>)
\*   let c = a; let get = fn() { c }; let set = fn(v) { c = v }; set(b); get()
SharedGlobalEnv(a, b) ==
  Program(<<LetStatement("c", Lit(a)),
            LetStatement("get", Fn(<<>>, <<Stmt(Id("c"))>>)),
            LetStatement("set",
              Fn(<<"v">>, <<Stmt(AssignExpression("c", Id("v")))>>)),
            Stmt(Call("set", <<Lit(b)>>)),
            Stmt(Call("get", <<>>))>>)
\*   let c = a; let set = fn(v) { c = v }; set(b); c
ReadByTheHolder(a, b) ==
  Program(<<LetStatement("c", Lit(a)),
            LetStatement("set",
              Fn(<<"v">>, <<Stmt(AssignExpression("c", Id("v")))>>)),
            Stmt(Call("set", <<Lit(b)>>)),
            Stmt(Id("c"))>>)
\*   ...; let p = mk(); let get = p[0]; let set = p[1]; set(b); set(a); get()
SetTwice(a, b) ==
  LET p == SharedCallEnv(a, b)
  IN Program(SubSeq(p.Statements, 1, 5)
             \o <<Stmt(Call("set", <<Lit(a)>>)), Stmt(Call("get", <<>>))>>)

SharedPrograms ==
  UNION {{SharedCallEnv(a, b), SharedGlobalEnv(a, b), ReadByTheHolder(a, b),
          SetTwice(a, b)} : a \in Values, b \in Values}

\* x = a where no environment of the chain binds x: at the top level, in a
\* function body, in a loop body, after a call whose environment bound x,
\* and with an assignment to a bound y as the value; x is read afterwards
UnboundPrograms ==
  UNION {
    {Program(<<Stmt(AssignExpression("x", Lit(a))), Stmt(Id("x"))>>),
     Program(<<LetStatement("f", Fn(<<>>, <<Stmt(AssignExpression("x", Lit(a)))>>)),
               Stmt(Call("f", <<>>)),
               Stmt(Id("x"))>>),
     Program(<<Stmt(ForExpression("i", ArrayLiteral(<<Lit(1)>>),
                      BlockStatement(<<Stmt(AssignExpression("x", Lit(a)))>>))),
               Stmt(Id("x"))>>),
     Program(<<LetStatement("mk", Fn(<<>>, <<LetStatement("x", Lit(1)),
                                            Stmt(Lit(0))>>)),
               Stmt(Call("mk", <<>>)),
               LetStatement("f", Fn(<<>>, <<Stmt(AssignExpression("x", Lit(a)))>>)),
               Stmt(Call("f", <<>>)),
               Stmt(Id("x"))>>),
     Program(<<LetStatement("y", Lit(0)),
               Stmt(AssignExpression("x", AssignExpression("y", Lit(a)))),
               Stmt(Id("y"))>>)} : a \in Values}

\* x = a in a loop body in a function body, x being declared at the top
\* level (gx), in the function body (fx), in the loop body (lx), and y in
\* each of the three
\*   let x = 1; let y = 1;
\*   let f = fn() { let x = 2; let y = 2;
\*                  for i in [0] { let x = 3; let y = 3; x = a }; x };
\*   f()
Declared(flag, name, n) == IF flag THEN <<LetStatement(name, Lit(n))>> ELSE <<>>

AssignInLoop(gx, fx, lx, a) ==
  Program(
    Declared(gx, "x", 1) \o <<LetStatement("y", Lit(1))>>
    \o <<LetStatement("f",
           Fn(<<>>,
              Declared(fx, "x", 2) \o <<LetStatement("y", Lit(2))>>
              \o <<Stmt(ForExpression("i", ArrayLiteral(<<Lit(0)>>),
                     BlockStatement(
                       Declared(lx, "x", 3) \o <<LetStatement("y", Lit(3))>>
                       \o <<Stmt(AssignExpression("x", Lit(a)))>>))),
                   Stmt(Id("x"))>>)),
         Stmt(Call("f", <<>>))>>)

AssignPrograms ==
  {AssignInLoop(gx, fx, lx, a) :
     gx \in BOOLEAN, fx \in BOOLEAN, lx \in BOOLEAN, a \in Values}

\* let in the block of an if and of an else
\*   let x = a; if true { let x = b }; x
ShadowInIf(a, b) ==
  Program(<<LetStatement("x", Lit(a)),
            Stmt(If(BooleanLiteral(TRUE), <<LetStatement("x", Lit(b))>>)),
            Stmt(Id("x"))>>)
\*   let x = a; if false { } else { let x = b }; x
ShadowInElse(a, b) ==
  Program(<<LetStatement("x", Lit(a)),
            Stmt(IfElse(BooleanLiteral(FALSE), <<>>,
                        <<LetStatement("x", Lit(b))>>)),
            Stmt(Id("x"))>>)
\*   if true { let y = b }; y
DeclareInIf(b) ==
  Program(<<Stmt(If(BooleanLiteral(TRUE), <<LetStatement("y", Lit(b))>>)),
            Stmt(Id("y"))>>)

BlockScopePrograms ==
  UNION {{ShadowInIf(a, b), ShadowInElse(a, b), DeclareInIf(b)} :
         a \in Values, b \in Values}

\* try, catch and finally
\*   try { u } catch e { str(e) }
CatchAsValue ==
  Program(<<TryStatement(BlockStatement(<<Stmt(Id("u"))>>), "e",
                         BlockStatement(<<Stmt(Call("str", <<Id("e")>>))>>),
                         NoNode)>>)
\*   let n = 0; try { T } catch e { n = n + 1 }; n
CatchCounts(T) ==
  Program(<<LetStatement("n", Lit(0)),
            TryStatement(BlockStatement(<<T>>), "e",
                         BlockStatement(<<Increment("n")>>), NoNode),
            Stmt(Id("n"))>>)
\*   try { T } catch e { 0 }
TryResult(T) ==
  Program(<<TryStatement(BlockStatement(<<T>>), "e",
                         BlockStatement(<<Stmt(Lit(0))>>), NoNode)>>)

TryPrograms ==
  {CatchAsValue} \cup UNION {{CatchCounts(T), TryResult(T)} :
                             T \in {Stmt(Lit(a)) : a \in Values}
                                     \cup {Stmt(Id("u"))}}

\*   let n = 0; try { T } catch e { n = n + 1 } finally { n = n + 1 }; n
FinallyCounts(T) ==
  Program(<<LetStatement("n", Lit(0)),
            TryStatement(BlockStatement(<<T>>), "e",
                         BlockStatement(<<Increment("n")>>),
                         BlockStatement(<<Increment("n")>>)),
            Stmt(Id("n"))>>)
\*   try { a } catch e { 0 } finally { F }
FinallyResult(a, F) ==
  Program(<<TryStatement(BlockStatement(<<Stmt(Lit(a))>>), "e",
                         BlockStatement(<<Stmt(Lit(0))>>),
                         BlockStatement(<<F>>))>>)

FinallyPrograms ==
  {FinallyCounts(T) : T \in {Stmt(Lit(1)), Stmt(Id("u"))}}
    \cup {FinallyResult(a, F) :
            a \in Values, F \in {Stmt(Lit(0)), Stmt(Id("u"))}}

\* break
\*   let n = 0; for i in [1, 2, 3] { if i == 2 { break }; n = n + 1 }; n
BreakInFor ==
  Program(<<LetStatement("n", Lit(0)),
            Stmt(ForExpression("i", ArrayLiteral(<<Lit(1), Lit(2), Lit(3)>>),
                   BlockStatement(
                     <<Stmt(If(InfixExpression(Id("i"), "==", Lit(2)),
                               <<BreakStatement>>)),
                       Increment("n")>>))),
            Stmt(Id("n"))>>)
\*   let n = 0; while true { n = n + 1; if n == 2 { break } }; n
BreakInWhile ==
  Program(<<LetStatement("n", Lit(0)),
            Stmt(WhileExpression(BooleanLiteral(TRUE),
                   BlockStatement(
                     <<Increment("n"),
                       Stmt(If(InfixExpression(Id("n"), "==", Lit(2)),
                               <<BreakStatement>>))>>))),
            Stmt(Id("n"))>>)
\*   let n = 0;
\*   for i in [1, 2] { for j in [1, 2] { break; n = n + 1 }; n = n + 1 }; n
BreakInInnerFor ==
  LET OneTwo == ArrayLiteral(<<Lit(1), Lit(2)>>)
  IN Program(<<LetStatement("n", Lit(0)),
               Stmt(ForExpression("i", OneTwo,
                      BlockStatement(
                        <<Stmt(ForExpression("j", OneTwo,
                                 BlockStatement(<<BreakStatement,
                                                  Increment("n")>>))),
                          Increment("n")>>))),
               Stmt(Id("n"))>>)

BreakPrograms == {BreakInFor, BreakInWhile, BreakInInnerFor}

\* continue
\*   let n = 0; for i in [1, 2, 3] { if i == 2 { continue }; n = n + 1 }; n
ContinueInFor ==
  Program(<<LetStatement("n", Lit(0)),
            Stmt(ForExpression("i", ArrayLiteral(<<Lit(1), Lit(2), Lit(3)>>),
                   BlockStatement(
                     <<Stmt(If(InfixExpression(Id("i"), "==", Lit(2)),
                               <<ContinueStatement>>)),
                       Increment("n")>>))),
            Stmt(Id("n"))>>)
\*   let n = 0; let k = 0;
\*   while k < 3 { k = k + 1; if k == 2 { continue }; n = n + 1 }; n
ContinueInWhile ==
  Program(<<LetStatement("n", Lit(0)),
            LetStatement("k", Lit(0)),
            Stmt(WhileExpression(InfixExpression(Id("k"), "<", Lit(3)),
                   BlockStatement(
                     <<Increment("k"),
                       Stmt(If(InfixExpression(Id("k"), "==", Lit(2)),
                               <<ContinueStatement>>)),
                       Increment("n")>>))),
            Stmt(Id("n"))>>)

ContinuePrograms == {ContinueInFor, ContinueInWhile}

\* for loops
\*   let s = ""; for x in IT { s = s + str(x) }; s
Spell(iterator) ==
  Program(<<LetStatement("s", StringLiteral("")),
            Stmt(ForExpression("x", iterator,
                   BlockStatement(
                     <<Stmt(AssignExpression("s",
                              InfixExpression(Id("s"), "+",
                                              Call("str", <<Id("x")>>))))>>))),
            Stmt(Id("s"))>>)
\*   let r = 0; for x in [1, 2] { if x == 2 { r = y }; let y = a }; r
LetSeenByNextIteration(a) ==
  Program(<<LetStatement("r", Lit(0)),
            Stmt(ForExpression("x", ArrayLiteral(<<Lit(1), Lit(2)>>),
                   BlockStatement(
                     <<Stmt(If(InfixExpression(Id("x"), "==", Lit(2)),
                               <<Stmt(AssignExpression("r", Id("y")))>>)),
                       LetStatement("y", Lit(a))>>))),
            Stmt(Id("r"))>>)
\*   for x in [a] { let y = a }; NAME
ReadAfterLoop(a, name) ==
  Program(<<Stmt(ForExpression("x", ArrayLiteral(<<Lit(a)>>),
                   BlockStatement(<<LetStatement("y", Lit(a))>>))),
            Stmt(Id(name))>>)

\* "012...", the first k numbers
RECURSIVE Digits(_)
Digits(k) == IF k = 0 THEN "" ELSE Digits(k - 1) \o ToString(k - 1)

ForPrograms ==
  {Spell(ArrayLiteral(<<Lit(a), Lit(b)>>)) : a \in Values, b \in Values}
    \cup {Spell(Call("range", <<Lit(0), Lit(k)>>)) : k \in 0..MaxInt}
    \cup {Spell(StringLiteral("ab"))}
    \cup {LetSeenByNextIteration(a) : a \in Values}
    \cup {ReadAfterLoop(a, name) : a \in Values, name \in {"x", "y"}}

\* an Error as a sub-expression: u is the Error "Identifier: u not found",
\* n = 1 the expression to its right, or the body, that must not be
\* evaluated
Failing == Id("u")
Effect == AssignExpression("n", Lit(1))

ErrorOperands ==
  {PrefixExpression("-", Failing),
   PrefixExpression("!", Failing),
   InfixExpression(Failing, "+", Effect),
   InfixExpression(Lit(1), "+", Failing),
   InfixExpression(Failing, "&", Effect),
   InfixExpression(Failing, "==", Effect),
   IndexExpression(Failing, Effect),
   IndexExpression(ArrayLiteral(<<Lit(1)>>), Failing),
   CallExpression(Failing, <<Effect>>),
   Call("str", <<Failing>>),
   Call("range", <<Failing, Effect>>),
   Call("range", <<Lit(0), Failing>>),
   ArrayLiteral(<<Failing, Effect>>),
   ArrayLiteral(<<Lit(1), Failing>>),
   If(Failing, <<Stmt(Effect)>>),
   WhileExpression(Failing, BlockStatement(<<Stmt(Effect)>>)),
   AssignExpression("n", Failing)}

ErrorInFor == ForExpression("x", Failing, BlockStatement(<<Stmt(Effect)>>))

\*   let n = 0; CONSTRUCT
ErrorIn(statement) == Program(<<LetStatement("n", Lit(0)), statement>>)

ErrorStatements ==
  {Stmt(e) : e \in ErrorOperands \cup {ErrorInFor}}
    \cup {LetStatement("z", Failing), ReturnStatement(Failing)}

ErrorPrograms == {ErrorIn(statement) : statement \in ErrorStatements}

\*   a / b
Divide(a, b) == Program(<<Stmt(InfixExpression(Lit(a), "/", Lit(b)))>>)

\*   let n = 0; n = a / 0; n
DivideThenGoOn(a) ==
  Program(<<LetStatement("n", Lit(0)),
            Stmt(AssignExpression("n", InfixExpression(Lit(a), "/", Lit(0)))),
            Stmt(Id("n"))>>)

DividePrograms ==
  {Divide(a, b) : a \in 0..MaxInt, b \in 0..MaxInt}
    \cup {DivideThenGoOn(a) : a \in 0..MaxInt}

\* operands of == and !=, each with the equality class the language gives
\* its value: the number, the content of the string, or the object.  An
\* operand of sort "fresh" builds a new object each time it is evaluated.
Operand(e, sort, val) == [e |-> e, sort |-> sort, val |-> val]

Operands ==
  {Operand(Lit(1), "number", "1"),
   Operand(Lit(2), "number", "2"),
   Operand(Flt(1, 1), "number", "1"),
   Operand(Flt(3, 2), "number", "3/2"),
   Operand(Flt(4, 2), "number", "2"),
   Operand(StringLiteral("a"), "string", "a"),
   Operand(StringLiteral("1"), "string", "1"),
   Operand(InfixExpression(StringLiteral(""), "+", StringLiteral("a")),
           "string", "a"),
   Operand(BooleanLiteral(TRUE), "object", "true"),
   Operand(BooleanLiteral(FALSE), "object", "false"),
   Operand(InfixExpression(Lit(1), "<", Lit(2)), "object", "true"),
   Operand(IndexExpression(ArrayLiteral(<<Lit(1)>>), Lit(2)), "object", "null"),
   Operand(Id("len"), "object", "len"),
   Operand(ArrayLiteral(<<Lit(1)>>), "fresh", "[1]"),
   Operand(ArrayLiteral(<<>>), "fresh", "[]"),
   Operand(Fn(<<>>, <<>>), "fresh", "fn")}

EqualityOperators == {"==", "!="}

\*   l op r
Compare(l, op, r) == Program(<<Stmt(InfixExpression(l.e, op, r.e))>>)

\*   let a = [1]; let b = a; a op b
CompareAliases(op) ==
  Program(<<LetStatement("a", ArrayLiteral(<<Lit(1)>>)),
            LetStatement("b", Id("a")),
            Stmt(InfixExpression(Id("a"), op, Id("b")))>>)

EqualityPrograms ==
  {Compare(l, op, r) : l \in Operands, r \in Operands, op \in EqualityOperators}
    \cup {CompareAliases(op) : op \in EqualityOperators}

\* operands of & and |, each with its truthiness
Truthy(e) == [e |-> e, truthy |-> TRUE]
Falsy(e) == [e |-> e, truthy |-> FALSE]

TruthOperands ==
  {Falsy(Lit(0)), Truthy(Lit(1)), Truthy(Lit(2)),
   Falsy(Flt(0, 1)), Truthy(Flt(3, 2)),
   Falsy(StringLiteral("")), Truthy(StringLiteral("a")),
   Falsy(BooleanLiteral(FALSE)), Truthy(BooleanLiteral(TRUE)),
   Falsy(ArrayLiteral(<<>>)), Truthy(ArrayLiteral(<<Lit(0)>>)),
   Falsy(IndexExpression(ArrayLiteral(<<>>), Lit(0)))}

LogicalOperators == {"&", "|"}

\*   let a = 0; let b = 0; (a = l) op (b = r)
Logical(l, op, r) ==
  Program(<<LetStatement("a", Lit(0)), LetStatement("b", Lit(0)),
            Stmt(InfixExpression(AssignExpression("a", l.e), op,
                                 AssignExpression("b", r.e)))>>)

LogicalPrograms ==
  {Logical(l, op, r) :
     l \in TruthOperands, r \in TruthOperands, op \in LogicalOperators}

\* hashable operands: the integer, float, string and boolean ones
Keys == {k \in Operands : k.sort \in {"number", "string"} \/ k.val \in {"true", "false"}}

\*   {entry: 1}[key]
Lookup(entry, key) ==
  Program(<<Stmt(IndexExpression(HashLiteral(<<<<entry.e, Lit(1)>>>>), key.e))>>)

\*   key in {entry: 1}
Member(entry, key) ==
  Program(<<Stmt(InfixExpression(key.e, "in",
                                 HashLiteral(<<<<entry.e, Lit(1)>>>>)))>>)

\*   len({entry: 1, key: 2})
Entries(entry, key) ==
  Program(<<Stmt(Call("len", <<HashLiteral(<<<<entry.e, Lit(1)>>,
                                            <<key.e, Lit(2)>>>>)>>))>>)

HashKeyPrograms ==
  UNION {{Lookup(entry, key), Member(entry, key), Entries(entry, key)} :
           entry \in Keys, key \in Keys}

\* the k-th letter, and the first n letters
Letter(k) == SubSeq("abcdefghij", k, k)
Letters(n) == SubSeq("abcdefghij", 1, n)

\* the integer i as the parser reads it: a literal, or - applied to one
Index(i) == IF i < 0 THEN PrefixExpression("-", Lit(0 - i)) ELSE Lit(i)

Indices == (0 - MaxLen - 1)..(MaxLen + 1)

\*   ["a", "b", ...][i], the array of the first n letters
ArrayIndex(n, i) ==
  Program(<<Stmt(IndexExpression(
                   ArrayLiteral([k \in 1..n |-> StringLiteral(Letter(k))]),
                   Index(i)))>>)

\*   "ab..."[i], the string of the first n letters
StringIndex(n, i) ==
  Program(<<Stmt(IndexExpression(StringLiteral(Letters(n)), Index(i)))>>)

\* keys of one kind each number, so that == and the kind agree
IndexKeys ==
  {k \in Keys : k.e.type \in {"IntegerLiteral", "StringLiteral",
                              "BooleanLiteral"}
                  \/ k.e = Flt(3, 2)}

\*   {k1: "x", k2: "y"}[key]
HashIndex(k1, k2, key) ==
  Program(<<Stmt(IndexExpression(
                   HashLiteral(<<<<k1.e, StringLiteral("x")>>,
                                 <<k2.e, StringLiteral("y")>>>>),
                   key.e))>>)

\*   {}[key]
EmptyHashIndex(key) ==
  Program(<<Stmt(IndexExpression(HashLiteral(<<>>), key.e))>>)

HashIndexPrograms ==
  {HashIndex(t[1], t[2], t[3]) :
     t \in {t \in IndexKeys \X IndexKeys \X IndexKeys : t[1] # t[2]}}
    \cup {EmptyHashIndex(key) : key \in IndexKeys}

IndexPrograms ==
  {ArrayIndex(n, i) : n \in 0..MaxLen, i \in Indices}
    \cup {StringIndex(n, i) : n \in 0..MaxLen, i \in Indices}
    \cup HashIndexPrograms

HashPrograms == HashKeyPrograms \cup HashIndexPrograms

\* the calls that make an array from an array, by name and further arguments
ArrayCalls ==
  {[name |-> "push", more |-> <<Lit(9)>>],
   [name |-> "unshift", more |-> <<Lit(9)>>],
   [name |-> "pop", more |-> <<>>],
   [name |-> "shift", more |-> <<>>],
   [name |-> "reversed", more |-> <<>>],
   [name |-> "slice", more |-> <<Lit(0), Lit(1)>>],
   [name |-> "slice", more |-> <<Lit(1), Lit(9)>>]}

Apply(call, name) == Call(call.name, <<Id(name)>> \o call.more)

\*   let a = [1, .., n]; let b = a; let h = [a]; let get = fn() { a };
\*   let r = call1(a, ..); let s = call2(a or r, ..); get()
TwoCalls(n, call1, call2, onResult) ==
  Program(<<LetStatement("a", ArrayLiteral([i \in 1..n |-> Lit(i)])),
            LetStatement("b", Id("a")),
            LetStatement("h", ArrayLiteral(<<Id("a")>>)),
            LetStatement("get", Fn(<<>>, <<Stmt(Id("a"))>>)),
            LetStatement("r", Apply(call1, "a")),
            LetStatement("s", Apply(call2, IF onResult THEN "r" ELSE "a")),
            Stmt(Call("get", <<>>))>>)

\*   let d = {1: "x", 2: "y"}; let e = d; let get = fn() { d };
\*   let r = delete(d, k1); let s = delete(d or r, k2); get()
TwoDeletes(k1, k2, onResult) ==
  Program(<<LetStatement("d", HashLiteral(<<<<Lit(1), StringLiteral("x")>>,
                                            <<Lit(2), StringLiteral("y")>>>>)),
            LetStatement("e", Id("d")),
            LetStatement("get", Fn(<<>>, <<Stmt(Id("d"))>>)),
            LetStatement("r", Call("delete", <<Id("d"), k1>>)),
            LetStatement("s", Call("delete",
                                   <<Id(IF onResult THEN "r" ELSE "d"), k2>>)),
            Stmt(Call("get", <<>>))>>)

DeletePrograms ==
  {TwoDeletes(k1, k2, onResult) :
     k1 \in {Lit(1), Lit(5)}, k2 \in {Lit(2), Lit(5)},
     onResult \in BOOLEAN}

ImmutablePrograms ==
  {TwoCalls(n, call1, call2, onResult) :
     n \in {0, MaxLen}, call1 \in ArrayCalls, call2 \in ArrayCalls,
     onResult \in BOOLEAN}
    \cup DeletePrograms

\*   let a = 0; {1: a = 1, 2: a = 2}; a
AssignInPairs ==
  Program(<<LetStatement("a", Lit(0)),
            Stmt(HashLiteral(<<<<Lit(1), AssignExpression("a", Lit(1))>>,
                               <<Lit(2), AssignExpression("a", Lit(2))>>>>)),
            Stmt(Id("a"))>>)

\*   {1: u, 2: v}
TwoUnknownValues ==
  Program(<<Stmt(HashLiteral(<<<<Lit(1), Id("u")>>, <<Lit(2), Id("v")>>>>))>>)

\*   {u: 1, v: 2}
TwoUnknownKeys ==
  Program(<<Stmt(HashLiteral(<<<<Id("u"), Lit(1)>>, <<Id("v"), Lit(2)>>>>))>>)

\*   let a = 0; [a = 1, a = 2]; a
AssignInElements ==
  Program(<<LetStatement("a", Lit(0)),
            Stmt(ArrayLiteral(<<AssignExpression("a", Lit(1)),
                                AssignExpression("a", Lit(2))>>)),
            Stmt(Id("a"))>>)

\*   let a = 0; (a = 1) + (a = 2); a
AssignInOperands ==
  Program(<<LetStatement("a", Lit(0)),
            Stmt(InfixExpression(AssignExpression("a", Lit(1)), "+",
                                 AssignExpression("a", Lit(2)))),
            Stmt(Id("a"))>>)

\*   let a = 0; let f = fn(x, y) { a }; f(a = 1, a = 2)
AssignInArguments ==
  Program(<<LetStatement("a", Lit(0)),
            LetStatement("f", Fn(<<"x", "y">>, <<Stmt(Id("a"))>>)),
            Stmt(Call("f", <<AssignExpression("a", Lit(1)),
                             AssignExpression("a", Lit(2))>>))>>)

\*   u + v
TwoUnknownOperands == Program(<<Stmt(InfixExpression(Id("u"), "+", Id("v")))>>)

PairOrderPrograms == {AssignInPairs, TwoUnknownValues, TwoUnknownKeys}

OrderPrograms ==
  PairOrderPrograms
    \cup {AssignInElements, AssignInOperands, AssignInArguments,
          TwoUnknownOperands}

\* print called with n arguments
PrintOf(n) == Call("print", [i \in 1..n |-> Lit(i)])

\*   print(1, .., n)
PrintAlone(n) == Program(<<Stmt(PrintOf(n))>>)
\*   let x = print(1, .., n); x
PrintBound(n) ==
  Program(<<LetStatement("x", PrintOf(n)), Stmt(Id("x"))>>)
\*   type(print(1, .., n))
PrintAsArgument(n) == Program(<<Stmt(Call("type", <<PrintOf(n)>>))>>)
\*   print(1, .., n) == 1   and   1 == print(1, .., n)
PrintAsOperand(n, left) ==
  Program(<<Stmt(IF left THEN InfixExpression(PrintOf(n), "==", Lit(1))
                 ELSE InfixExpression(Lit(1), "==", PrintOf(n)))>>)

PrintCallPrograms ==
  UNION {{PrintAlone(n), PrintBound(n), PrintAsArgument(n),
          PrintAsOperand(n, TRUE), PrintAsOperand(n, FALSE)} :
           n \in 0..MaxLen}

\*   let f = fn(a, b, ..) { 7 }; f(1, 2, ..)   with k parameters, n arguments
ArityCall(k, n) ==
  Program(<<LetStatement("f", Fn([i \in 1..k |-> Letter(i)], <<Stmt(Lit(7))>>)),
            Stmt(Call("f", [i \in 1..n |-> Lit(i)]))>>)

ArityPrograms == {ArityCall(k, n) : k \in 0..MaxLen, n \in 0..MaxLen}

\*   if (true) { return 1 }   and   if (false) { 0 } else { return 1 }
ReturnInIf ==
  {If(BooleanLiteral(TRUE), <<ReturnStatement(Lit(1))>>),
   IfElse(BooleanLiteral(FALSE), <<Stmt(Lit(0))>>, <<ReturnStatement(Lit(1))>>)}

\* the places the value of an expression e goes to: a let, an array literal,
\* a hash literal, an operand, an index, an argument of a builtin, an
\* argument of a function
ReturnSignalUses(e) ==
  {<<LetStatement("x", e), Stmt(Lit(2))>>,
   <<Stmt(ArrayLiteral(<<e>>))>>,
   <<Stmt(HashLiteral(<<<<Lit(1), e>>>>))>>,
   <<Stmt(InfixExpression(e, "+", Lit(1)))>>,
   <<Stmt(IndexExpression(ArrayLiteral(<<Lit(1)>>), e))>>,
   <<Stmt(Call("type", <<e>>))>>,
   <<LetStatement("g", Fn(<<"a">>, <<Stmt(Lit(0))>>)), Stmt(Call("g", <<e>>))>>}

\*   U   and   let f = fn() { U }; f()
ReturnSignalPrograms ==
  UNION {{Program(use),
          Program(<<LetStatement("f", Fn(<<>>, use)), Stmt(Call("f", <<>>))>>)} :
           use \in UNION {ReturnSignalUses(e) : e \in ReturnInIf}}

\* token streams: the tokens of a source text, without the EOF
Word(name) == Token("IDENTIFIER", name)
Num(n) == Token("INTEGER", ToString(n))
Dec(literal) == Token("FLOAT", literal)
Key(word) ==
  Token(CASE word = "fn" -> "FUNCTION"
          [] word = "let" -> "LET"
          [] word = "if" -> "IF"
          [] word = "else" -> "ELSE"
          [] word = "for" -> "FOR"
          [] word = "while" -> "WHILE"
          [] word = "return" -> "RETURN"
          [] word = "true" -> "TRUE"
          [] word = "false" -> "FALSE"
          [] word = "break" -> "BREAK"
          [] word = "continue" -> "CONTINUE"
          [] word = "try" -> "TRY"
          [] word = "catch" -> "CATCH"
          [] word = "finally" -> "FINALLY",
        word)
\* an operator or a punctuation mark, whose type is its text
Sym(text) == Token(text, text)

BinaryOperators ==
  {"+", "-", "*", "/", "==", "!=", "<", "<=", ">", ">=", "&", "|", "in"}
PrefixOperators == {"-", "!"}

\*   a op1 b op2 c
Chain(op1, op2) == <<Word("a"), Sym(op1), Word("b"), Sym(op2), Word("c")>>
\*   a op b op c op d
LongChain(op) ==
  <<Word("a"), Sym(op), Word("b"), Sym(op), Word("c"), Sym(op), Word("d")>>
\*   pre a op b
PrefixFirst(pre, op) == <<Sym(pre), Word("a"), Sym(op), Word("b")>>
\*   a op pre b
PrefixLast(op, pre) == <<Word("a"), Sym(op), Sym(pre), Word("b")>>
\*   pre a(b)    pre a[b]
PrefixCall(pre) == <<Sym(pre), Word("a"), Sym("("), Word("b"), Sym(")")>>
PrefixIndex(pre) == <<Sym(pre), Word("a"), Sym("["), Word("b"), Sym("]")>>
\*   a op b(c)    a op b[c]
InfixCall(op) ==
  <<Word("a"), Sym(op), Word("b"), Sym("("), Word("c"), Sym(")")>>
InfixIndex(op) ==
  <<Word("a"), Sym(op), Word("b"), Sym("["), Word("c"), Sym("]")>>

PrecedenceStreams ==
  {Chain(op1, op2) : op1 \in BinaryOperators, op2 \in BinaryOperators}
    \cup {LongChain(op) : op \in BinaryOperators}
    \cup {PrefixFirst(pre, op) : pre \in PrefixOperators, op \in BinaryOperators}
    \cup {PrefixLast(op, pre) : op \in BinaryOperators, pre \in PrefixOperators}
    \cup {PrefixCall(pre) : pre \in PrefixOperators}
    \cup {PrefixIndex(pre) : pre \in PrefixOperators}
    \cup {InfixCall(op) : op \in BinaryOperators}
    \cup {InfixIndex(op) : op \in BinaryOperators}

\* well-formed sources
WellFormed ==
  {\* if x { 1 } else { 2 }
   <<Key("if"), Word("x"), Sym("{"), Num(1), Sym("}"), Key("else"), Sym("{"),
     Num(2), Sym("}")>>,
   \* if (x) { y; }
   <<Key("if"), Sym("("), Word("x"), Sym(")"), Sym("{"), Word("y"), Sym(";"),
     Sym("}")>>,
   \* let f = fn(a, b) { a };
   <<Key("let"), Word("f"), Sym("="), Key("fn"), Sym("("), Word("a"),
     Sym(","), Word("b"), Sym(")"), Sym("{"), Word("a"), Sym("}"), Sym(";")>>,
   \* for i in x { i }
   <<Key("for"), Word("i"), Sym("in"), Word("x"), Sym("{"), Word("i"),
     Sym("}")>>,
   \* while (x) { break; continue }
   <<Key("while"), Sym("("), Word("x"), Sym(")"), Sym("{"), Key("break"),
     Sym(";"), Key("continue"), Sym("}")>>,
   \* try { x } catch (e) { y } finally { z }
   <<Key("try"), Sym("{"), Word("x"), Sym("}"), Key("catch"), Sym("("),
     Word("e"), Sym(")"), Sym("{"), Word("y"), Sym("}"), Key("finally"),
     Sym("{"), Word("z"), Sym("}")>>,
   \* {1: x, "k": 1.5}[y]
   <<Sym("{"), Num(1), Sym(":"), Word("x"), Sym(","), Token("STRING", "k"),
     Sym(":"), Dec("1.5"), Sym("}"), Sym("["), Word("y"), Sym("]")>>,
   \* f(1, [2, true])
   <<Word("f"), Sym("("), Num(1), Sym(","), Sym("["), Num(2), Sym(","),
     Key("true"), Sym("]"), Sym(")")>>,
   \* /* x */ return (1 + 2) * x
   <<Sym("/*"), Word("x"), Sym("*/"), Key("return"), Sym("("), Num(1),
     Sym("+"), Num(2), Sym(")"), Sym("*"), Word("x")>>,
   \* x = y = !z
   <<Word("x"), Sym("="), Word("y"), Sym("="), Sym("!"), Word("z")>>,
   \* fn() { if x { return 1 } }
   <<Key("fn"), Sym("("), Sym(")"), Sym("{"), Key("if"), Word("x"), Sym("{"),
     Key("return"), Num(1), Sym("}"), Sym("}")>>}

\* sources the lexer reads tokens from that no parse function accepts
Unreadable ==
  {<<Token("INTEGER", "99999999999999999999")>>,
   <<Token("ILLEGAL", "@")>>,
   <<Word("x"), Sym("+"), Token("ILLEGAL", "1-2")>>}

\* a source cut off after its first k tokens, or with one token left out
Truncated(tokens) == {SubSeq(tokens, 1, k) : k \in 0..Len(tokens)}
Without(tokens, k) ==
  SubSeq(tokens, 1, k - 1) \o SubSeq(tokens, k + 1, Len(tokens))
Damaged(tokens) == {Without(tokens, k) : k \in 1..Len(tokens)}

BrokenStreams ==
  UNION {Truncated(tokens) \cup Damaged(tokens) : tokens \in WellFormed}
    \cup Unreadable

\*   a = b = c
AssignChain == <<Word("a"), Sym("="), Word("b"), Sym("="), Word("c")>>
\*   a = b op c
AssignInfix(op) == <<Word("a"), Sym("="), Word("b"), Sym(op), Word("c")>>
\*   a op b = c
InfixAssign(op) == <<Word("a"), Sym(op), Word("b"), Sym("="), Word("c")>>
\* left operands of = that are not a bare identifier:  1   -a   a[0]   a(b)
\* (a)[0]
NonIdentifiers ==
  {<<Num(1)>>,
   <<Sym("-"), Word("a")>>,
   <<Word("a"), Sym("["), Num(0), Sym("]")>>,
   <<Word("a"), Sym("("), Word("b"), Sym(")")>>,
   <<Token("STRING", "a")>>}
\*   left = c
AssignTo(left) == left \o <<Sym("="), Word("c")>>

AssignStreams ==
  {AssignChain}
    \cup {AssignInfix(op) : op \in BinaryOperators}
    \cup {InfixAssign(op) : op \in BinaryOperators}
    \cup {AssignTo(left) : left \in NonIdentifiers}

\* sources that end inside every construct they have opened
\*   fn() { while (x) { {1: x, 2: [y, f(z
\*   if x { /* y
Open ==
  {<<Key("fn"), Sym("("), Sym(")"), Sym("{"), Key("while"), Sym("("),
     Word("x"), Sym(")"), Sym("{"), Sym("{"), Num(1), Sym(":"), Word("x"),
     Sym(","), Num(2), Sym(":"), Sym("["), Word("y"), Sym(","), Word("f"),
     Sym("("), Word("z")>>,
   <<Key("if"), Word("x"), Sym("{"), Sym("/*"), Word("y")>>}

OpenStreams == UNION {Truncated(tokens) : tokens \in Open}

\* tokens in the place of a parameter: an identifier and others
ParameterTokens ==
  {Word("b"), Num(1), Sym("+"), Key("let"), Key("true"), Token("STRING", "s"),
   Sym("(")}

\*   fn(T) { }   fn(a, T) { }   fn(a T) { }   fn(a, T { }
ParameterStreams ==
  UNION {{<<Key("fn"), Sym("("), t, Sym(")"), Sym("{"), Sym("}")>>,
          <<Key("fn"), Sym("("), Word("a"), Sym(","), t, Sym(")"), Sym("{"),
            Sym("}")>>,
          <<Key("fn"), Sym("("), Word("a"), t, Sym(")"), Sym("{"), Sym("}")>>,
          <<Key("fn"), Sym("("), Word("a"), Sym(","), t, Sym("{"), Sym("}")>>} :
           t \in ParameterTokens}

TokenStreams ==
  PrecedenceStreams \cup BrokenStreams \cup AssignStreams \cup OpenStreams
    \cup ParameterStreams

\* lines of a session: the first four parse, the last four do not
\*   let x = 1    x    x = 2    let y = x
\*   let x        x +    x =    let x = 2 )
GoodLines ==
  {<<Key("let"), Word("x"), Sym("="), Num(1)>>,
   <<Word("x")>>,
   <<Word("x"), Sym("="), Num(2)>>,
   <<Key("let"), Word("y"), Sym("="), Word("x")>>}
RejectedLines ==
  {<<Key("let"), Word("x")>>,
   <<Word("x"), Sym("+")>>,
   <<Word("x"), Sym("=")>>,
   <<Key("let"), Word("x"), Sym("="), Num(2), Sym(")")>>}
SessionLines == GoodLines \cup RejectedLines

\* the inputs of a session: up to MaxLen lines
Sessions == UNION {[1..n -> SessionLines] : n \in 1..MaxLen}

\* the token types of the words that the keyword table of the token file
\* does not hold
LaterKeywords == {"BREAK", "CONTINUE", "TRY", "CATCH", "FINALLY"}

\* sources with a string literal:  "a"   "a b"   let s = "a b";   f("a", "")
Quoted ==
  {<<Token("STRING", "a")>>,
   <<Token("STRING", "a b")>>,
   <<Key("let"), Word("s"), Sym("="), Token("STRING", "a b"), Sym(";")>>,
   <<Word("f"), Sym("("), Token("STRING", "a"), Sym(","), Token("STRING", ""),
     Sym(")")>>}

\* well-formed sources to print and parse again
PrintStreams ==
  {tokens \in WellFormed :
     \A i \in DOMAIN tokens : tokens[i].Type \notin LaterKeywords}
    \cup PrecedenceStreams \cup {AssignChain} \cup Quoted

Programs ==
  SequencePrograms \cup ReturnPrograms \cup ClosurePrograms \cup SharedPrograms
    \cup UnboundPrograms \cup AssignPrograms \cup BlockScopePrograms
    \cup TryPrograms \cup FinallyPrograms \cup BreakPrograms
    \cup ContinuePrograms \cup ForPrograms \cup ErrorPrograms
    \cup DividePrograms \cup EqualityPrograms
    \cup LogicalPrograms \cup HashPrograms
    \cup IndexPrograms \cup ImmutablePrograms \cup OrderPrograms
    \cup PrintCallPrograms \cup ArityPrograms

\* the REPL reads a program one statement a line
Lines(p) == [i \in DOMAIN p.Statements |-> Program(<<p.Statements[i]>>)]

(***************************************************************************)
(* The front ends: main evaluates a script file in a new environment;      *)
(* repl.Start evaluates line after line in one environment.                *)
(***************************************************************************)
Init ==
  /\ mode \in {"script", "repl"}
  /\ \E p \in Programs :
       /\ \/ source = <<p>>
          \/ mode = "repl" /\ Len(p.Statements) > 1 /\ source = Lines(p)
       /\ \E order \in IF p \in HashPrograms \cup DeletePrograms
                                 \cup OrderPrograms
                          THEN Orders
                        ELSE {NewMachine.order} :
            mach = [NewMachine EXCEPT !.envs = NewEnvironment(<<>>),
                                      !.order = order]
  /\ line = 0
  /\ pc = "run"
  /\ stream = <<>>
  /\ prs = NoParser
  /\ tree = NoNode
  /\ printed = NoText
  /\ again = NoParse
  /\ genv = 1
  /\ output = NIL

\* a Go panic ends the process; a loop that never ends hangs it
After(val, last) ==
  IF val = PANIC THEN "crashed"
  ELSE IF val = DIVERGE THEN "hung"
  ELSE IF last THEN "done"
  ELSE "run"

Main ==
  /\ mode = "script"
  /\ pc = "run"
  /\ LET r == Eval(source[1], genv, mach)
     IN /\ mach' = r.m
        /\ output' = r.val
        /\ pc' = After(r.val, TRUE)
  /\ line' = 1
  /\ UNCHANGED <<mode, source, genv, stream, prs, tree, printed, again>>

ReplLine ==
  /\ mode = "repl"
  /\ pc = "run"
  /\ line < Len(source)
  /\ LET r == Eval(source[line + 1], genv, [mach EXCEPT !.steps = 0])
     IN /\ mach' = r.m
        /\ output' = r.val
        /\ pc' = After(r.val, line + 1 = Len(source))
  /\ line' = line + 1
  /\ UNCHANGED <<mode, source, genv, stream, prs, tree, printed, again>>

Next == Main \/ ReplLine

Spec == Init /\ [][Next]_vars

\* the front ends on the programs that use an if holding a return as a value
SignalInit ==
  /\ mode \in {"script", "repl"}
  /\ \E p \in ReturnSignalPrograms :
       \/ source = <<p>>
       \/ mode = "repl" /\ Len(p.Statements) > 1 /\ source = Lines(p)
  /\ mach = [NewMachine EXCEPT !.envs = NewEnvironment(<<>>)]
  /\ line = 0
  /\ pc = "run"
  /\ stream = <<>>
  /\ prs = NoParser
  /\ tree = NoNode
  /\ printed = NoText
  /\ again = NoParse
  /\ genv = 1
  /\ output = NIL

SignalSpec == SignalInit /\ [][Next]_vars

\* p was evaluated to the end, as a script or in the REPL
Ran(p) == pc = "done" /\ (source = <<p>> \/ source = Lines(p))

(***************************************************************************)
(* The parser alone: the front ends make a Parser over the lexer of the    *)
(* input with parser.New and call ParseProgram once.                       *)
(***************************************************************************)
ParserInit ==
  /\ stream \in TokenStreams
  /\ prs = NoParser
  /\ tree = NoNode
  /\ mode = "parse"
  /\ source = <<>>
  /\ line = 0
  /\ pc = "idle"
  /\ mach = NewMachine
  /\ genv = 0
  /\ output = NIL
  /\ printed = NoText
  /\ again = NoParse

NewParser ==
  /\ prs = NoParser
  /\ prs' = New(stream)
  /\ UNCHANGED <<mode, source, line, pc, mach, genv, output, stream, tree,
               printed, again>>

Parse ==
  /\ prs # NoParser
  /\ tree = NoNode
  /\ LET parsed == ParseProgram(prs)
     IN /\ tree' = parsed.node
        /\ prs' = parsed.parser
  /\ UNCHANGED <<mode, source, line, pc, mach, genv, output, stream,
               printed, again>>

ParserNext == NewParser \/ Parse

ParserSpec == ParserInit /\ [][ParserNext]_vars

\* ParseProgram has returned for the input
Parsed(tokens) == stream = tokens /\ tree # NoNode

(***************************************************************************)
(* The front ends with their parser: main parses the file and repl.Start   *)
(* each line, and they evaluate the Program when the parser has no errors. *)
(***************************************************************************)
SessionInit ==
  /\ mode \in {"script", "repl"}
  /\ source \in Sessions
  /\ mode = "script" => Len(source) = 1
  /\ line = 0
  /\ pc = "run"
  /\ mach = [NewMachine EXCEPT !.envs = NewEnvironment(<<>>)]
  /\ genv = 1
  /\ output = NIL
  /\ stream = <<>>
  /\ prs = NoParser
  /\ tree = NoNode
  /\ printed = NoText
  /\ again = NoParse

\* a front end that takes every input for parsed
hasErrorsNever(parser) == FALSE

\* len(par.Errors()) != 0
hasErrors(parser) == Len(parser.errors) # 0

\* what the front end does with the parsed input: it shows the errors, or
\* evaluates the Program in its environment
Evaluated(parsed, env, m) ==
  IF hasErrors(parsed.parser) THEN R(NIL, m)
  ELSE Eval(parsed.node, env, [m EXCEPT !.steps = 0])

\* the input is parsed and the front end has done result with it
Handled(tokens, parsed, result, last) ==
  /\ stream' = tokens
  /\ prs' = parsed.parser
  /\ tree' = parsed.node
  /\ mach' = result.m
  /\ output' = result.val
  /\ pc' = After(result.val, last)

Handle(tokens, parsed, last) ==
  Handled(tokens, parsed, Evaluated(parsed, genv, mach), last)

\* main with a source file
MainSource ==
  /\ mode = "script"
  /\ pc = "run"
  /\ Handle(source[1], ParseProgram(New(source[1])), TRUE)
  /\ line' = 1
  /\ UNCHANGED <<mode, source, genv, printed, again>>

\* one turn of the loop of repl.Start
StartLine ==
  /\ mode = "repl"
  /\ pc = "run"
  /\ line < Len(source)
  /\ Handle(source[line + 1], ParseProgram(New(source[line + 1])),
            line + 1 = Len(source))
  /\ line' = line + 1
  /\ UNCHANGED <<mode, source, genv, printed, again>>

SessionNext == MainSource \/ StartLine

SessionSpec == SessionInit /\ [][SessionNext]_vars

(***************************************************************************)
(* Printing and parsing again: the String of the Program that ParseProgram *)
(* returned is the input of a second lexer and parser.                     *)
(***************************************************************************)
PrintInit ==
  /\ stream \in PrintStreams
  /\ prs = NoParser
  /\ tree = NoNode
  /\ printed = NoText
  /\ again = NoParse
  /\ mode = "print"
  /\ source = <<>>
  /\ line = 0
  /\ pc = "idle"
  /\ mach = NewMachine
  /\ genv = 0
  /\ output = NIL

\* program.String()
PrintProgram ==
  /\ tree # NoNode
  /\ printed = NoText
  /\ \E order \in Orders : printed' = <<NodeString(tree, order)>>
  /\ UNCHANGED <<mode, source, line, pc, mach, genv, output, stream, prs, tree,
                 again>>

\* what the second parse gave: its errors and, without any, its String
Reparsed(parsed, order) ==
  [errors |-> parsed.parser.errors,
   printed |-> IF parsed.parser.errors = <<>>
                 THEN <<NodeString(parsed.node, order)>>
                 ELSE NoText,
   done |-> TRUE]

\* parser.New(lexer.New(text)).ParseProgram().String()
Reparse ==
  /\ printed # NoText
  /\ ~again.done
  /\ \E order \in Orders :
       again' = Reparsed(ParseProgram(New(Tokens(printed[1]))), order)
  /\ UNCHANGED <<mode, source, line, pc, mach, genv, output, stream, prs, tree,
                 printed>>

PrintNext == NewParser \/ Parse \/ PrintProgram \/ Reparse

PrintSpec == PrintInit /\ [][PrintNext]_vars

(***************************************************************************)
(* Properties                                                              *)
(***************************************************************************)
IsError(res) == res.kind = "ERROR"
IsReturn(res) == res.kind = "RETURN_VALUE"
IsInterrupt(res) == IsError(res) \/ IsReturn(res)

Events(op) == {i \in DOMAIN mach.log : mach.log[i].op = op}

\* the begin and stmt events of statement sequence sid, in the order logged
SeqTrace(sid) ==
  LET OfSeq(e) == e.op \in {"begin", "stmt"} /\ e.sid = sid
  IN SelectSeq(mach.log, OfSeq)

\* statement 1 begins and ends, then statement 2 begins and ends, ...
InSourceOrder(t) ==
  \A j \in DOMAIN t :
    /\ t[j].idx = (j + 1) \div 2
    /\ t[j].op = IF j % 2 = 1 THEN "begin" ELSE "stmt"

\* no statement begins after one that yielded an Error or a ReturnSignal
StopsAtInterrupt(t) ==
  \A j \in DOMAIN t : (t[j].op = "stmt" /\ IsInterrupt(t[j].res)) => j = Len(t)

\* a sequence that yielded a result ran to its last statement or to an
\* interrupting one, and Yield(is program, last result, result) holds
SequenceYields(Yield(_, _, _)) ==
  \A i \in Events("seq") :
    LET e == mach.log[i]
        t == SeqTrace(e.sid)
    IN IF t = <<>> THEN e.n = 0 /\ e.res = NIL
       ELSE LET last == t[Len(t)]
            IN /\ last.op = "stmt"
               /\ IsInterrupt(last.res) \/ last.idx = e.n
               /\ Yield(e.prog, last.res, e.res)

C2_ReturnEndsTheCall ==
  /\ \A i \in Events("stmt") :
       LET e == mach.log[i]
       IN (e.node.type = "ReturnStatement" /\ IsReturn(e.res) /\ e.call # 0) =>
            /\ \A j \in DOMAIN mach.log :
                 (j > i /\ mach.log[j].call = e.call) =>
                   /\ mach.log[j].op \in {"stmt", "seq", "loop"}
                   /\ mach.log[j].res = e.res
            /\ \E j \in Events("ret") : j > i /\ mach.log[j].env = e.call
            /\ \A j \in Events("ret") :
                 mach.log[j].env = e.call =>
                   /\ mach.log[j].raw = e.res
                   /\ mach.log[j].res = e.res.rv
  /\ \A p \in ReturnPrograms : Ran(p) => output = Integer(1)

\* a return inside two nested loops ended the call, in the second iteration
\* of the inner loop
C2_Witness ==
  \E i \in Events("stmt"), j \in Events("loop"), k \in Events("iter") :
    /\ mach.log[i].node.type = "ReturnStatement"
    /\ mach.log[i].call # 0
    /\ mach.log[i].loop # 0
    /\ k < i
    /\ mach.log[k].env = mach.log[i].loop
    /\ mach.log[k].k = 2
    /\ j > i
    /\ mach.log[j].call = mach.log[i].call
    /\ mach.log[j].env # mach.log[i].loop
    /\ pc = "done"

RECURSIVE Definer(_, _, _)
Definer(envs, e, name) ==
  IF e = 0 THEN 0
  ELSE IF name \in DOMAIN envs[e].store THEN e
  ELSE Definer(envs, envs[e].outer, name)

\* C4: closures that captured the same environment observe each other's
\* mutations: after an assignment to a captured variable, a read of that
\* variable through any environment that reached the same binding gets the
\* new value, so a later call of the other closure returns it.
C4_SharedEnvSeesAssignment ==
  /\ \A i \in Events("assign") :
       LET e == mach.log[i]
       IN \A k \in DOMAIN e.before :
            Definer(e.before, k, e.name) = Definer(e.before, e.env, e.name) =>
              Get(e.after, k, e.name) = [obj |-> e.res, ok |-> TRUE]
  /\ \A a \in Values, b \in Values :
       /\ \A p \in {SharedCallEnv(a, b), SharedGlobalEnv(a, b),
                    ReadByTheHolder(a, b)} : Ran(p) => output = Integer(b)
       /\ Ran(SetTwice(a, b)) => output = Integer(a)

\* one closure assigned the variable of the environment both captured in a
\* call, and a later call of the other closure returned the new value
C4_Witness ==
  \E i \in Events("assign"), c \in Events("call"), r \in Events("ret") :
    LET e == mach.log[i]
        definer == Definer(e.before, e.env, e.name)
    IN /\ definer \notin {e.env, genv}
       /\ e.before[definer].store[e.name] # e.res
       /\ i < c
       /\ mach.log[c].fenv = definer
       /\ c < r
       /\ mach.log[r].env = mach.log[c].env
       /\ mach.log[r].res = e.res
       /\ pc = "done"
       /\ output = e.res

\* the statement x = e, begun where no environment of the chain binds x
UnboundAssignment(b) ==
  /\ b.node.type = "ExpressionStatement"
  /\ b.node.Expression.type = "AssignExpression"
  /\ ~Get(b.envs, b.env, b.node.Expression.Variable.Value).ok

\* the event that ends the statement begun by event i
EndOf(i) ==
  CHOOSE j \in Events("stmt") :
    /\ j > i
    /\ mach.log[j].sid = mach.log[i].sid
    /\ mach.log[j].idx = mach.log[i].idx

\* C5: an assignment x = e evaluated where no environment of the visible
\* chain binds x yields an Error whose message names x, and leaves every
\* environment as it was: none gains a binding, for x or for anything else.
C5_UnboundAssignmentIsAnError ==
  \A i \in Events("begin") :
    UnboundAssignment(mach.log[i]) =>
      /\ \E j \in Events("stmt") : j = EndOf(i)
      /\ mach.log[EndOf(i)].res =
           newError("Identifier: "
                    \o mach.log[i].node.Expression.Variable.Value
                    \o " is not defined")
      /\ mach.log[EndOf(i)].envs = mach.log[i].envs

\* x = e failed in a function body while the environment of an earlier call
\* binds x
C5_Witness ==
  \E i \in Events("begin") :
    /\ UnboundAssignment(mach.log[i])
    /\ mach.log[i].call # 0
    /\ \E k \in DOMAIN mach.log[i].envs :
         "x" \in DOMAIN mach.log[i].envs[k].store
    /\ IsError(output)

\* the statement x = n, n an integer literal, begun where x is bound
LiteralAssignment(b) ==
  /\ b.node.type = "ExpressionStatement"
  /\ b.node.Expression.type = "AssignExpression"
  /\ b.node.Expression.Value.type = "IntegerLiteral"
  /\ Get(b.envs, b.env, b.node.Expression.Variable.Value).ok

\* C6: an assignment x = e evaluated where the chain binds x replaces the
\* binding of x in the nearest environment of the chain that defines x and
\* changes nothing else: no other environment, no other name, no outer
\* binding of x that the nearest one shadows; the value of the assignment
\* expression is the assigned value.
C6_AssignmentWritesNearestDefiner ==
  /\ \A i \in Events("assign") :
       LET e == mach.log[i]
           definer == Definer(e.before, e.env, e.name)
       IN /\ definer # 0
          /\ e.after = [e.before EXCEPT ![definer].store[e.name] = e.res]
  /\ \A i \in Events("begin") :
       LET b == mach.log[i]
           assigned == Integer(b.node.Expression.Value.Value)
           x == b.node.Expression.Variable.Value
       IN LiteralAssignment(b) =>
            /\ \E j \in Events("stmt") : j = EndOf(i)
            /\ mach.log[EndOf(i)].res = assigned
            /\ mach.log[EndOf(i)].envs =
                 [b.envs EXCEPT ![Definer(b.envs, b.env, x)].store[x] = assigned]

\* x = e in a loop body wrote the x of the function body, which shadows the
\* x of the top level, the loop body declaring none
C6_Witness ==
  \E i \in Events("assign") :
    LET e == mach.log[i]
        definer == Definer(e.before, e.env, e.name)
    IN /\ definer # e.env
       /\ e.loop = e.env
       /\ e.before[definer].outer # 0
       /\ Definer(e.before, e.before[definer].outer, e.name) # 0
       /\ e.before[definer].store[e.name] # e.res
       /\ DOMAIN e.before[definer].store # {e.name}
       /\ pc = "done"
       /\ output = e.res

\* C7: variables are block scoped: a name declared with let in the block of
\* an if or of an else is bound in the block's own scope, so that after the
\* block the enclosing binding of the name has its previous value and a name
\* declared only in the block is not visible.
C7_LetInBlockStaysInBlock ==
  \A a \in Values, b \in Values :
    /\ Ran(ShadowInIf(a, b)) => output = Integer(a)
    /\ Ran(ShadowInElse(a, b)) => output = Integer(a)
    /\ Ran(DeclareInIf(b)) => output = newError("Identifier: y not found")

\* C8: when the try block yields an Error the catch block is evaluated with
\* the catch identifier bound to the error as an ordinary value, and the
\* result of the try statement is the result of the catch block, not the
\* Error; when the try block yields no Error the catch block is not
\* evaluated.
C8_CatchHandlesTheError ==
  /\ Ran(CatchAsValue) =>
       output = String(Inspect(newError("Identifier: u not found")))
  /\ Ran(CatchCounts(Stmt(Id("u")))) => output = Integer(1)
  /\ Ran(TryResult(Stmt(Id("u")))) => output = Integer(0)
  /\ \A a \in Values :
       /\ Ran(CatchCounts(Stmt(Lit(a)))) => output = Integer(0)
       /\ Ran(TryResult(Stmt(Lit(a)))) => output = Integer(a)

\* C9: a finally block is evaluated exactly once, after the try block and
\* after the catch block if that ran, whether or not the try block yielded
\* an Error; its result replaces the result of try/catch only when it is an
\* Error.
C9_FinallyRunsOnce ==
  /\ Ran(FinallyCounts(Stmt(Lit(1)))) => output = Integer(1)
  /\ Ran(FinallyCounts(Stmt(Id("u")))) => output = Integer(2)
  /\ \A a \in Values :
       /\ Ran(FinallyResult(a, Stmt(Lit(0)))) => output = Integer(a)
       /\ Ran(FinallyResult(a, Stmt(Id("u")))) =>
            output = newError("Identifier: u not found")

\* C10: a break executed in a loop body ends the nearest enclosing for or
\* while loop only: no further statement of the iteration and no further
\* iteration of that loop is evaluated, the loop yields no Error, and the
\* enclosing loop and the statements after the loop go on.
C10_BreakEndsNearestLoop ==
  /\ Ran(BreakInFor) => output = Integer(1)
  /\ Ran(BreakInInnerFor) => output = Integer(2)
  /\ source \in {<<BreakInWhile>>, Lines(BreakInWhile)} =>
       /\ pc # "hung"
       /\ pc = "done" => output = Integer(2)

\* C11: a continue executed in a loop body ends the current iteration only:
\* the remaining statements of the iteration are not evaluated, the loop
\* goes on with its next element (for) or evaluates its condition again
\* (while), and no Error results.
C11_ContinueEndsIteration ==
  /\ Ran(ContinueInFor) => output = Integer(2)
  /\ Ran(ContinueInWhile) => output = Integer(2)

\* the iterations of the loop whose environment is env, in the order logged
Iterations(env) ==
  LET OfLoop(e) == e.op = "iter" /\ e.env = env
  IN SelectSeq(mach.log, OfLoop)

\* C12: a for loop evaluates its body once per element of the materialised
\* sequence, in order, the loop variable being bound to the element before
\* each iteration, in one child environment made once per loop execution
\* and shared by the iterations: what let bound in one iteration is visible
\* in the next, and after the loop neither that nor the loop variable is
\* visible in the enclosing environment.
C12_ForSharesOneChildEnv ==
  /\ \A f \in Events("for") :
       LET e == mach.log[f]
           its == Iterations(e.env)
       IN /\ e.env # e.outer
          /\ \A g \in Events("for") : g # f => mach.log[g].env # e.env
          /\ Len(its) <= Len(e.elems)
          /\ \A j \in DOMAIN its :
               /\ its[j].k = j
               /\ its[j].envs[e.env].outer = e.outer
               /\ its[j].envs[e.env].store[e.name] = e.elems[j]
               /\ j = 1 => DOMAIN its[j].envs[e.env].store = {e.name}
               /\ j > 1 => \A n \in DOMAIN its[j - 1].envs[e.env].store :
                             n \in DOMAIN its[j].envs[e.env].store
          /\ \A l \in Events("loop") :
               (mach.log[l].env = e.env /\ mach.log[l].res = NIL) =>
                 Len(its) = Len(e.elems)
  /\ \A a \in Values, b \in Values :
       Ran(Spell(ArrayLiteral(<<Lit(a), Lit(b)>>))) =>
         output = String(ToString(a) \o ToString(b))
  /\ \A k \in 0..MaxInt :
       Ran(Spell(Call("range", <<Lit(0), Lit(k)>>))) =>
         output = String(Digits(k))
  /\ Ran(Spell(StringLiteral("ab"))) => output = String("ab")
  /\ \A a \in Values :
       /\ Ran(LetSeenByNextIteration(a)) => output = Integer(a)
       /\ \A name \in {"x", "y"} :
            Ran(ReadAfterLoop(a, name)) =>
              output = newError("Identifier: " \o name \o " not found")

\* the second iteration of a loop read what let bound in the first, and
\* after the loop the enclosing environment binds neither name
C12_Witness ==
  \E a \in Values, f \in Events("for") :
    /\ Ran(LetSeenByNextIteration(a))
    /\ output = Integer(a)
    /\ Len(Iterations(mach.log[f].env)) = 2
    /\ "y" \in DOMAIN Iterations(mach.log[f].env)[2].envs[mach.log[f].env].store
    /\ ~Get(mach.envs, genv, "y").ok
    /\ ~Get(mach.envs, genv, "x").ok

\* the construct yielded the Error of its sub-expression as it is and left
\* the environment as it was
Propagated(statement) ==
  Ran(ErrorIn(statement)) =>
    /\ output = newError("Identifier: u not found")
    /\ mach.envs[genv].store = [n \in {"n"} |-> Integer(0)]

\* C13: when a sub-expression of a construct (prefix operand, infix left or
\* right operand, index target or index, callee or call argument, array
\* element, if/while condition, let/return/assignment value, for-loop
\* iterable) yields an Error, the construct yields that same Error
\* unchanged, evaluates no sub-expression to its right and updates no
\* environment.
C13_ErrorPropagatesUnchanged ==
  \A statement \in ErrorStatements : Propagated(statement)

\* C14: an integer division by zero yields an Error value, which
\* propagates like any other runtime error; it never ends the evaluation
\* with a failure of the host.
C14_DivisionByZeroIsAnError ==
  \A a \in 0..MaxInt :
    /\ source = <<Divide(a, 0)>> /\ pc # "run" =>
         pc = "done" /\ IsError(output)
    /\ source \in {<<DivideThenGoOn(a)>>, Lines(DivideThenGoOn(a))} =>
         pc # "crashed"

\* what == has to say of two operands
EqualOperands(l, r) == l.sort = r.sort /\ l.val = r.val /\ l.sort # "fresh"

Verdict(op, equal) == nativeToBooleanObject((op = "==") = equal)

ComparesAsSpecified(l, op, r) ==
  source = <<Compare(l, op, r)>> /\ pc # "run" =>
    pc = "done" /\ output = Verdict(op, EqualOperands(l, r))

\* C15: == and != applied to any two values never yield an Error and
\* always yield a Boolean: two numbers compare by numeric value across
\* integer and float, two strings by content, every other pair, operands of
\* different kinds included, by reference identity (two separately built
\* arrays with equal elements are not equal, an array is equal to itself).
C15_EqualityIsTotal ==
  \A op \in EqualityOperators :
    /\ \A l \in Operands, r \in Operands : ComparesAsSpecified(l, op, r)
    /\ Ran(CompareAliases(op)) => output = Verdict(op, TRUE)

C15_Witness ==
  /\ Ran(Compare(Operand(Lit(2), "number", "2"), "==",
                 Operand(Flt(4, 2), "number", "2")))
  /\ output = TrueObj

\* the names assigned so far, in the order of the assignments
AssignedNames ==
  LET IsAssign(e) == e.op = "assign"
      assigns == SelectSeq(mach.log, IsAssign)
  IN [i \in DOMAIN assigns |-> assigns[i].name]

Conjunction(op, l, r) == IF op = "&" THEN l /\ r ELSE l \/ r

SelectSameEntry(entry, key) ==
  LET same == EqualOperands(entry, key)
  IN /\ Ran(Lookup(entry, key)) =>
          output = (IF same THEN Integer(1) ELSE NULL)
     /\ Ran(Member(entry, key)) => output = nativeToBooleanObject(same)
     /\ Ran(Entries(entry, key)) =>
          output = (IF same THEN Integer(1) ELSE Integer(2))

C18_IndexingIsBoundsChecked ==
  /\ \A n \in 0..MaxLen, i \in Indices :
       /\ Ran(ArrayIndex(n, i)) =>
            output = (IF 0 <= i /\ i < n THEN String(Letter(i + 1)) ELSE NULL)
       /\ Ran(StringIndex(n, i)) =>
            output = (IF 0 <= i /\ i < n THEN String(Letter(i + 1)) ELSE NULL)
       /\ source \in {<<ArrayIndex(n, i)>>, <<StringIndex(n, i)>>} =>
            pc \in {"run", "done"}
  /\ \A key \in IndexKeys :
       /\ Ran(EmptyHashIndex(key)) => output = NULL
       /\ \A k1 \in IndexKeys :
            \A k2 \in IndexKeys \ {k1} :
              Ran(HashIndex(k1, k2, key)) =>
              output = (IF key = k1 THEN String("x")
                        ELSE IF key = k2 THEN String("y")
                        ELSE NULL)

\* the index -1 of a two-element array is Null, not the last element
C18_Witness ==
  /\ Ran(ArrayIndex(2, 0 - 1))
  /\ output = NULL

\* a node that is nil or has a nil node where the grammar requires a block
\* or an expression (an if without else has no Alternate, a try without
\* finally no Finally)
RECURSIVE Incomplete(_)
AnyIncomplete(nodes) == \E i \in DOMAIN nodes : Incomplete(nodes[i])
Incomplete(node) ==
  CASE node.type = "nil" -> TRUE
    [] node.type \in {"Program", "BlockStatement"} ->
         AnyIncomplete(node.Statements)
    [] node.type \in {"LetStatement", "AssignExpression"} ->
         Incomplete(node.Value)
    [] node.type = "ReturnStatement" -> Incomplete(node.ReturnValue)
    [] node.type = "ExpressionStatement" -> Incomplete(node.Expression)
    [] node.type = "PrefixExpression" -> Incomplete(node.Right)
    [] node.type = "InfixExpression" ->
         Incomplete(node.Left) \/ Incomplete(node.Right)
    [] node.type = "IfExpression" ->
         \/ Incomplete(node.Condition)
         \/ Incomplete(node.Consequence)
         \/ node.Alternate # NoNode /\ Incomplete(node.Alternate)
    [] node.type = "ForExpression" ->
         Incomplete(node.Iterator) \/ Incomplete(node.Body)
    [] node.type = "WhileExpression" ->
         Incomplete(node.Condition) \/ Incomplete(node.Body)
    [] node.type = "TryStatement" ->
         \/ Incomplete(node.Try)
         \/ Incomplete(node.Catch)
         \/ node.Finally # NoNode /\ Incomplete(node.Finally)
    [] node.type = "IndexExpression" ->
         Incomplete(node.Array) \/ Incomplete(node.Index)
    [] node.type = "CallExpression" ->
         Incomplete(node.Function) \/ AnyIncomplete(node.Arguments)
    [] node.type = "ArrayLiteral" -> AnyIncomplete(node.Elements)
    [] node.type = "HashLiteral" ->
         \E i \in DOMAIN node.Pairs : AnyIncomplete(node.Pairs[i])
    [] node.type = "FunctionLiteral" -> Incomplete(node.Body)
    [] OTHER -> FALSE

\* C19: every failure path of the parser records a message: when parsing a
\* construct fails, a block-delimited construct (if, for, while, function
\* body, try/catch/finally) that reaches the end of the input before its
\* closing brace included, the error list is not empty when ParseProgram
\* returns; so an empty error list implies that no node of the returned
\* Program has a nil block or a nil sub-expression.
C19_FailureRecordsAMessage ==
  tree # NoNode /\ prs.errors = <<>> => ~Incomplete(tree)

\* the rank the precedence table gives a binary operator: equality, and, or
\* and in below relational, below sum, below product
Rank(op) ==
  CASE op \in {"==", "!=", "&", "|", "in"} -> 1
    [] op \in {"<", "<=", ">", ">="} -> 2
    [] op \in {"+", "-"} -> 3
    [] op \in {"*", "/"} -> 4

\* the Program of a source that is one expression
Only(expression) == Program(<<ExpressionStatement(expression)>>)

\* the grouping of  a op1 b op2 c
Grouped(op1, op2) ==
  IF Rank(op2) <= Rank(op1)
    THEN InfixExpression(
           InfixExpression(Identifier("a"), op1, Identifier("b")),
           op2, Identifier("c"))
    ELSE InfixExpression(
           Identifier("a"), op1,
           InfixExpression(Identifier("b"), op2, Identifier("c")))

\* C20: binary operators group by the precedence table and are
\* left-associative: a op1 b op2 c is parsed as (a op1 b) op2 c when
\* precedence(op2) <= precedence(op1) and as a op1 (b op2 c) when
\* precedence(op2) > precedence(op1), with equality/and/or/in below
\* relational, below sum, below product, below the prefix operators, below
\* call and index.
C20_BinaryOperatorsGroupByPrecedence ==
  /\ \A op1 \in BinaryOperators :
       \A op2 \in BinaryOperators :
         Parsed(Chain(op1, op2)) =>
           tree = Only(Grouped(op1, op2)) /\ prs.errors = <<>>
  /\ \A op \in BinaryOperators :
       /\ Parsed(LongChain(op)) =>
            tree = Only(InfixExpression(Grouped(op, op), op, Identifier("d")))
       /\ \A pre \in PrefixOperators :
            /\ Parsed(PrefixFirst(pre, op)) =>
                 tree = Only(InfixExpression(
                               PrefixExpression(pre, Identifier("a")),
                               op, Identifier("b")))
            /\ Parsed(PrefixLast(op, pre)) =>
                 tree = Only(InfixExpression(
                               Identifier("a"), op,
                               PrefixExpression(pre, Identifier("b"))))
       /\ Parsed(InfixCall(op)) =>
            tree = Only(InfixExpression(
                          Identifier("a"), op,
                          CallExpression(Identifier("b"), <<Identifier("c")>>)))
       /\ Parsed(InfixIndex(op)) =>
            tree = Only(InfixExpression(
                          Identifier("a"), op,
                          IndexExpression(Identifier("b"), Identifier("c"))))
  /\ \A pre \in PrefixOperators :
       /\ Parsed(PrefixCall(pre)) =>
            tree = Only(PrefixExpression(
                          pre,
                          CallExpression(Identifier("a"), <<Identifier("b")>>)))
       /\ Parsed(PrefixIndex(pre)) =>
            tree = Only(PrefixExpression(
                          pre,
                          IndexExpression(Identifier("a"), Identifier("b"))))

\* a - b - c has been parsed, and as (a - b) - c
C20_Witness ==
  /\ Parsed(Chain("-", "-"))
  /\ prs.errors = <<>>
  /\ tree = Only(InfixExpression(
                   InfixExpression(Identifier("a"), "-", Identifier("b")),
                   "-", Identifier("c")))

\* the node is or holds an AssignExpression
RECURSIVE Assigns(_)
Assigns(node) ==
  CASE node.type = "AssignExpression" -> TRUE
    [] node.type = "Program" ->
         \E i \in DOMAIN node.Statements : Assigns(node.Statements[i])
    [] node.type = "ExpressionStatement" -> Assigns(node.Expression)
    [] node.type = "PrefixExpression" -> Assigns(node.Right)
    [] node.type = "InfixExpression" ->
         Assigns(node.Left) \/ Assigns(node.Right)
    [] node.type = "IndexExpression" ->
         Assigns(node.Array) \/ Assigns(node.Index)
    [] node.type = "CallExpression" ->
         \/ Assigns(node.Function)
         \/ \E i \in DOMAIN node.Arguments : Assigns(node.Arguments[i])
    [] OTHER -> FALSE

\* ParseProgram has refused the assignment: no assignment node, and the
\* message of parseAssignExpression in the error list
Refused ==
  /\ ~Assigns(tree)
  /\ \E i \in DOMAIN prs.errors :
       prs.errors[i] = "Cannot assign value to a non-identifier"

\* C21: assignment is right-associative and binds at equality level:
\* a = b = c parses as a = (b = c) and a = b + c as a = (b + c); an
\* assignment whose left operand is anything other than a bare identifier
\* (a + b = c, a[0] = c, 1 = c) produces no assignment node and adds the
\* cannot-assign-to-a-non-identifier error to the error list.
C21_AssignmentIsRightAssociative ==
  /\ Parsed(AssignChain) =>
       /\ tree = Only(AssignExpression(
                        "a", AssignExpression("b", Identifier("c"))))
       /\ prs.errors = <<>>
  /\ \A op \in BinaryOperators :
       /\ Parsed(AssignInfix(op)) =>
            /\ tree = Only(AssignExpression(
                             "a", InfixExpression(Identifier("b"), op,
                                                  Identifier("c"))))
            /\ prs.errors = <<>>
       /\ Parsed(InfixAssign(op)) => Refused
  /\ \A left \in NonIdentifiers : Parsed(AssignTo(left)) => Refused

\* a = b = c has been parsed, and as a = (b = c)
C21_Witness ==
  /\ Parsed(AssignChain)
  /\ tree = Only(AssignExpression("a", AssignExpression("b", Identifier("c"))))

\* C22: print-parse idempotence: for every well-formed program, parsing
\* returns an empty error list, and rendering the Program to its string,
\* tokenizing and parsing that string again yields an empty error list and a
\* Program whose rendered string equals the first rendering.
C22_PrintParseIdempotent ==
  /\ tree # NoNode => prs.errors = <<>>
  /\ again.done => again.errors = <<>> /\ again.printed = printed

\* the number of Programs that Eval has evaluated
Evaluations == Cardinality({i \in DOMAIN mach.log :
                              mach.log[i].op = "seq" /\ mach.log[i].prog})

\* the inputs so far that the parser accepted
Accepted ==
  {i \in 1..line : ParseProgram(New(source[i])).parser.errors = <<>>}

\* the session  let x = 1, then the rejected line, then  x
AfterRejected(rejected) ==
  <<<<Key("let"), Word("x"), Sym("="), Num(1)>>, rejected, <<Word("x")>>>>

\* C23: the front end (REPL and script runner) invokes the evaluator on a
\* parsed Program only when the parser's error list is empty: an input with
\* at least one syntax error is reported and never evaluated, so it leaves
\* the session environment unchanged, and in the REPL the bindings made by
\* earlier inputs remain visible to later inputs.
C23_RejectedInputIsNotEvaluated ==
  /\ [](/\ Evaluations = Cardinality(Accepted)
        /\ \A rejected \in RejectedLines :
             source = AfterRejected(rejected) /\ pc = "done" =>
               output = Integer(1))
  /\ [][prs'.errors # <<>> =>
          /\ mach' = mach
          /\ genv' = genv
          /\ output' = NIL]_vars

\* the REPL has read  let x = 1,  let x = 2 )  and  x: the answer is 1
C23_Witness ==
  /\ mode = "repl"
  /\ source = AfterRejected(<<Key("let"), Word("x"), Sym("="), Num(2),
                              Sym(")")>>)
  /\ pc = "done"
  /\ Len(mach.log) > 0
  /\ output = Integer(1)

ImmutableBuiltins ==
  {"push", "unshift", "pop", "shift", "reversed", "slice", "delete"}

\* what the catalog of the builtins documents as the contents of the result
Documented(name, arguments) ==
  CASE name = "push" -> arguments[1].Elements \o Tail(arguments)
    [] name = "unshift" -> Tail(arguments) \o arguments[1].Elements
    [] name = "pop" ->
         SubSeq(arguments[1].Elements, 1, Len(arguments[1].Elements) - 1)
    [] name = "shift" -> Tail(arguments[1].Elements)
    [] name = "reversed" ->
         [i \in 1..Len(arguments[1].Elements) |->
            arguments[1].Elements[Len(arguments[1].Elements) + 1 - i]]
    [] name = "slice" ->
         [i \in 1..(IF arguments[3].iv < Len(arguments[1].Elements)
                      THEN arguments[3].iv
                      ELSE Len(arguments[1].Elements)) - arguments[2].iv |->
            arguments[1].Elements[arguments[2].iv + i]]
    [] name = "delete" ->
         [key \in DOMAIN arguments[1].Pairs \ {HashKey(arguments[2])} |->
            arguments[1].Pairs[key]]

\* the memory holds for obj, and for every element of it, the contents it
\* was made with
RECURSIVE Intact(_, _)
Intact(obj, m) ==
  CASE obj.kind = "ARRAY" ->
         /\ Contents(obj, m) = obj.Elements
         /\ \A i \in DOMAIN obj.Elements : Intact(obj.Elements[i], m)
    [] obj.kind = "HASH" -> Contents(obj, m) = obj.Pairs
    [] OTHER -> TRUE

\* C24: push, unshift, pop, shift, reversed, slice and delete return a new
\* array or hash with the documented contents (pop and shift of an empty
\* array an Error) and write to no array or hash that existed before the
\* call, so that every variable of every environment, closures' included,
\* and every array element still holds the contents it was made with
C24_ArraysAndHashesAreImmutable ==
  /\ \A i \in DOMAIN mach.calls :
       LET call == mach.calls[i]
       IN call.name \in ImmutableBuiltins =>
            /\ \A ref \in DOMAIN call.before.heap :
                 call.after.heap[ref] = call.before.heap[ref]
            /\ \A ref \in DOMAIN call.before.slices :
                 call.after.slices[ref] = call.before.slices[ref]
            /\ call.res.kind \in {"ARRAY", "HASH"} =>
                 /\ call.res.ref > call.before.nref
                 /\ Contents(call.res, call.after)
                      = Documented(call.name, call.arguments)
                 /\ Intact(call.res, call.after)
            /\ call.name \in {"pop", "shift"}
               /\ call.arguments[1].kind = "ARRAY"
               /\ call.arguments[1].Elements = <<>>
               => isError(call.res)
  /\ \A e \in DOMAIN mach.envs :
       \A name \in DOMAIN mach.envs[e].store :
         Intact(mach.envs[e].store[name], mach)
  /\ Intact(output, mach)

\* a = [1, 2, 3] was sliced to its first element, 9 was pushed to the slice,
\* whose backing array is a's, and a, its alias b, the element of h and the
\* closure get still read [1, 2, 3]
C24_Witness ==
  /\ Ran(TwoCalls(MaxLen, [name |-> "slice", more |-> <<Lit(0), Lit(1)>>],
                  [name |-> "push", more |-> <<Lit(9)>>], TRUE))
  /\ Len(mach.calls) = 2
  /\ mach.calls[2].arguments[1] = mach.calls[1].res
  /\ mach.calls[2].res.Elements = <<Integer(1), Integer(9)>>
  /\ mach.slices[mach.calls[1].res.ref].array
       = mach.slices[mach.calls[1].arguments[1].ref].array
  /\ output.Elements = [i \in 1..MaxLen |-> Integer(i)]
  /\ mach.envs[genv].store["b"] = output
  /\ mach.envs[genv].store["h"].Elements = <<output>>

\* the evaluation of script p from a new environment when Go's range over
\* a map takes the order order
Evaluation(p, order) ==
  Eval(p, 1, [NewMachine EXCEPT !.envs = NewEnvironment(<<>>),
                                !.order = order])

\* C25: two evaluations of one program from equal initial environments
\* yield equal results and equal final environments, here: the script that
\* ran and its evaluation under any other order of Go's range over a map
C25_EvaluationIsDeterministic ==
  \A p \in OrderPrograms :
    mode = "script" /\ Ran(p) =>
      \A order \in Orders :
        /\ Evaluation(p, order).val = output
        /\ Evaluation(p, order).m.envs = mach.envs

\* the constructs that evaluate their operands from a slice are
\* deterministic: only the pairs of a hash literal are not
C25_SlicesAreEvaluatedInOrder ==
  \A p \in OrderPrograms \ PairOrderPrograms :
    mode = "script" /\ Ran(p) =>
      \A order \in Orders :
        /\ Evaluation(p, order).val = output
        /\ Evaluation(p, order).m.envs = mach.envs

\* C26: print returns the Null value for every argument list, and a program
\* that binds the result with let, passes it to type or compares it with ==
\* does not fail
C26_PrintReturnsNull ==
  /\ \A i \in DOMAIN mach.calls :
       mach.calls[i].name = "print" => mach.calls[i].res = NULL
  /\ \A p \in PrintCallPrograms :
       source = <<p>> \/ source = Lines(p) => pc # "crashed"

\* C27: a call of a user-defined function with k parameters and n arguments
\* never aborts the evaluator: with n >= k the arguments beyond k are ignored
\* and the body's value is the result, with n < k the call completes with a
\* value or an Error
C27_ArityMismatchDoesNotAbort ==
  \A k \in 0..MaxLen, n \in 0..MaxLen :
    source = <<ArityCall(k, n)>> \/ source = Lines(ArityCall(k, n)) =>
      /\ pc # "crashed"
      /\ pc = "done" /\ n >= k => output = Integer(7)

\* the half of it that the code has: no call with at least as many
\* arguments as parameters aborts, and the excess is ignored
C27_ExcessArgumentsAreIgnored ==
  \A k \in 0..MaxLen : \A n \in k..MaxLen :
    source = <<ArityCall(k, n)>> \/ source = Lines(ArityCall(k, n)) =>
      /\ pc # "crashed"
      /\ pc = "done" => output = Integer(7)

\* C28: no environment binds a name to a ReturnSignal (a parameter is a name
\* of the call's environment), no array or hash that was ever made holds
\* one, no builtin receives one as an argument and no operator as an
\* operand (the operator would answer with a type mismatch that names it)
C28_ReturnSignalIsTransient ==
  /\ \A e \in DOMAIN mach.envs :
       \A name \in DOMAIN mach.envs[e].store :
         ~IsReturn(mach.envs[e].store[name])
  /\ \A ref \in DOMAIN mach.heap :
       IF ref \in DOMAIN mach.slices
         THEN \A i \in DOMAIN mach.heap[ref] :
                ~IsReturn(mach.heap[ref][i])
         ELSE \A key \in DOMAIN mach.heap[ref] :
                ~IsReturn(mach.heap[ref][key].Value)
  /\ \A i \in DOMAIN mach.calls :
       \A j \in DOMAIN mach.calls[i].arguments :
         ~IsReturn(mach.calls[i].arguments[j])
  /\ output # newError("Type mismatch: RETURN_VALUE + INTEGER")

\* the number of tokens the parser has read from the lexer
Reads == prs.lexer.position - 1

\* C29: ParseProgram returns on every token stream, well-formed or not, and
\* when it returns the cursor is on the end of input: the current and the
\* peek token are EOF, every token of the stream was read, and the EOF was
\* read no more often than once for every token of the stream and twice
\* more, so that no loop went on reading at the end of input
C29_ParseProgramTerminates ==
  /\ tree # NoNode =>
       /\ prs.curToken = EOF
       /\ prs.peekToken = EOF
       /\ Reads >= Len(stream) + 2
       /\ Reads <= 2 * Len(stream) + 2
  /\ prs # NoParser => Reads >= 2

\* ParseProgram returned on a source that ends inside a comment inside a
\* block, having read the EOF four times: the comment stops on it, the loop
\* of the block and the loop of the program each scan once more
C29_Witness ==
  /\ Parsed(<<Key("if"), Word("x"), Sym("{"), Sym("/*"), Word("y")>>)
  /\ prs.curToken = EOF
  /\ Reads = Len(stream) + 4

\* the function literals that are a statement or the value of a let of the
\* Program
Literals ==
  {tree.Statements[i].Expression :
     i \in {i \in DOMAIN tree.Statements :
              tree.Statements[i].type = "ExpressionStatement"}}
    \cup {tree.Statements[i].Value :
            i \in {i \in DOMAIN tree.Statements :
                     tree.Statements[i].type = "LetStatement"}}

\* the parameter is the identifier of an IDENTIFIER token of the source
FromIdentifierToken(parameter) ==
  \E i \in DOMAIN stream :
    stream[i].Type = "IDENTIFIER" /\ stream[i].Literal = parameter.Value

\* C30: every parameter of a function literal of a Program returned with an
\* empty error list was built from an IDENTIFIER token
C30_ParametersAreIdentifiers ==
  tree # NoNode /\ prs.errors = <<>> =>
    \A literal \in Literals :
      literal.type = "FunctionLiteral" =>
        \A i \in DOMAIN literal.Parameters :
          FromIdentifierToken(literal.Parameters[i])

\* the other half of it, which the code has: parameters without a comma
\* between them or without the closing ) add a syntax error
C30_ParametersAreSeparatedAndClosed ==
  \A t \in ParameterTokens :
    \/ Parsed(<<Key("fn"), Sym("("), Word("a"), t, Sym(")"), Sym("{"),
                Sym("}")>>)
    \/ Parsed(<<Key("fn"), Sym("("), Word("a"), Sym(","), t, Sym("{"),
                Sym("}")>>)
    => prs.errors # <<>>

====
